---- MODULE Spec2Model ----
(***************************************************************************)
(* Model of the ansible-pacemaker2 modules (library/pacemaker_*.py).       *)
(*                                                                         *)
(* The cluster information base (CIB) is an attributed tree.  Every module *)
(* run fetches a scope of it with cibadmin --query, edits the fetched tree *)
(* in memory and, when it computed changed = true outside check mode,      *)
(* writes one scope back with cibadmin --replace.  One action of the model *)
(* is one whole run of a module's main().                                  *)
(***************************************************************************)
EXTENDS Integers, Sequences, FiniteSets, TLC

VARIABLES
    doc,     \* the persisted CIB: one tree per scope
    last,    \* the report of the latest module run (the request, the result)
    running  \* the runs that are between their fetch and their report

vars == <<doc, last, running>>

----------------------------------------------------------------------------
(* xml.etree.ElementTree elements: a tag, an attribute dictionary and the  *)
(* list of children.                                                       *)

Element(tag, attrib, children) ==
    [tag |-> tag, attrib |-> attrib, children |-> children]

NoAttrib == <<>>

\* ET.SubElement(root, tag, attrib): the new element becomes the LAST child.
SubElement(root, node) ==
    [root EXCEPT !.children = Append(@, node)]

\* Element.get(key): None when the attribute is missing.
None == "None"

Get(node, key) ==
    IF key \in DOMAIN node.attrib THEN node.attrib[key] ELSE None

\* dict.update(): the keys of `more` override those of `base`.
Update(base, more) == more @@ base

\* The subsequence of `s` at the ascending indexes of the set `idx`.
RECURSIVE SelectIdx(_, _, _)
SelectIdx(s, idx, i) ==
    IF i > Len(s) THEN <<>>
    ELSE (IF i \in idx THEN <<s[i]>> ELSE <<>>) \o SelectIdx(s, idx, i + 1)

\* parent.remove(child) for every child whose index is in `idx`.
RemoveIdx(s, idx) == SelectIdx(s, (1..Len(s)) \ idx, 1)

\* The ascending list of the indexes in `idx`, all within 1..n.
IdxSeq(idx, n) == SelectIdx([i \in 1..n |-> i], idx, 1)

Range(s) == {s[i] : i \in DOMAIN s}

Min(S) == CHOOSE x \in S : \A y \in S : x <= y

\* Every element below `root`, root excluded, as ElementTree's iter() meets
\* them: in document order.
RECURSIVE Descendants(_)
RECURSIVE DescendantsFrom(_, _)
DescendantsFrom(children, i) ==
    IF i > Len(children) THEN <<>>
    ELSE <<children[i]>> \o Descendants(children[i])
         \o DescendantsFrom(children, i + 1)
Descendants(root) == DescendantsFrom(root.children, 1)

\* root.find(".//*[@id='...']") is not None
HasElementWithId(root, id) ==
    \E i \in DOMAIN Descendants(root) : Get(Descendants(root)[i], "id") = id

\* Every id attribute carried below `root`, in document order.
IdsOf(root) ==
    LET d == Descendants(root)
        ix == IdxSeq({i \in DOMAIN d : "id" \in DOMAIN d[i].attrib}, Len(d))
    IN  [k \in DOMAIN ix |-> d[ix[k]].attrib.id]

NoDuplicates(s) == \A i, j \in DOMAIN s : s[i] = s[j] => i = j

----------------------------------------------------------------------------
(* Key=value blobs.  A blob is the list of tokens shlex.split() yields:    *)
(* <<key, value>> for a token that holds '=', <<word>> for one that does   *)
(* not.  A parameter the caller left out (None) is NoBlob.                  *)

NoBlob == [given |-> FALSE, tokens |-> <<>>]

Blob(tokens) == [given |-> TRUE, tokens |-> tokens]

\* The dictionary built from the tokens s[1..n]; a later key overrides.
RECURSIVE TokensToDict(_, _)
TokensToDict(s, n) ==
    IF n = 0 THEN <<>>
    ELSE (s[n][1] :> s[n][2]) @@ TokensToDict(s, n - 1)

\* option_str_to_dict of pacemaker_order, pacemaker_order_set,
\* pacemaker_property and pacemaker_resource_default: a token without '='
\* raises; `key=` raises too (value[0] of the empty string).
option_str_to_dict(opts) ==
    LET t == opts.tokens
    IN  IF ~opts.given THEN [ok |-> TRUE, dict |-> <<>>, msg |-> ""]
        ELSE IF \E i \in DOMAIN t : Len(t[i]) = 1
        THEN [ok |-> FALSE, dict |-> <<>>,
              msg |-> "non key=value parameter: "
                      \o t[Min({i \in DOMAIN t : Len(t[i]) = 1})][1]]
        ELSE IF \E i \in DOMAIN t : t[i][2] = ""
        THEN [ok |-> FALSE, dict |-> <<>>, msg |-> "string index out of range"]
        ELSE [ok |-> TRUE, dict |-> TokensToDict(t, Len(t)), msg |-> ""]

----------------------------------------------------------------------------
(* has_difference(current, new).  The modules carry their own copies; the  *)
(* copies differ in the attribute rule (pacemaker_colocation) and in the   *)
(* ordered children rule (pacemaker_resource_group, pacemaker_order_set).  *)

\* The default rule also for rsc_colocation: no mirror image is recognised.
ColocationAttribDiffersNoMirror(current, new) == current.attrib # new.attrib

\* pacemaker_colocation: differing attributes are tolerated when `current`
\* is the mirror image of `new`.
ColocationAttribDiffers(current, new) ==
    /\ current.attrib # new.attrib
    /\ \/ Get(current, "rsc") = Get(new, "rsc")
       \/ Get(current, "rsc") # Get(new, "with-rsc")
       \/ Get(current, "with-rsc") # Get(new, "rsc")
       \/ Get(current, "rsc-role") # Get(new, "with-rsc-role")
       \/ Get(current, "with-rsc-role") # Get(new, "rsc-role")
       \/ Get(current, "score") # Get(new, "score")

AttribDiffers(mod, current, new) ==
    IF mod = "colocation" /\ current.tag = "rsc_colocation"
    THEN ColocationAttribDiffers(current, new)
    ELSE current.attrib # new.attrib

\* No tag is compared position by position: the rule of the generic copies.
OrderedChildTagNowhere(mod, tag) == None

\* The tag whose children are compared position by position, if any.
OrderedChildTag(mod, tag) ==
    IF mod = "resource_group" /\ tag = "group" THEN "primitive"
    ELSE IF mod = "order_set" /\ tag = "resource_set" THEN "resource_ref"
    ELSE None

\* Only the first child with the tag is looked at.
ChildrenWithTagFirst(node, tag) ==
    LET idx == {i \in DOMAIN node.children : node.children[i].tag = tag}
    IN  IF idx = {} THEN <<>> ELSE <<node.children[Min(idx)]>>

ChildrenWithTag(node, tag) ==
    SelectIdx(node.children,
              {i \in DOMAIN node.children : node.children[i].tag = tag}, 1)

\* `if child_id:` an id attribute that is present and not empty
HasId(node) == "id" \in DOMAIN node.attrib /\ node.attrib.id # ""

\* A comparison of the element objects themselves: a freshly built element
\* is never the stored one.
has_difference_by_identity(mod, current, new) == TRUE

RECURSIVE has_difference(_, _, _)
\* A child of `new` without an id is held against the first current child
\* of its tag alone.
has_difference_first_of_tag(mod, current, new) ==
    IF current.tag # new.tag THEN TRUE
    ELSE IF AttribDiffers(mod, current, new) THEN TRUE
    ELSE IF OrderedChildTag(mod, current.tag) # None
    THEN LET c_children == ChildrenWithTag(current, OrderedChildTag(mod, current.tag))
             n_children == ChildrenWithTag(new, OrderedChildTag(mod, current.tag))
         IN  \/ Len(c_children) # Len(n_children)
             \/ \E index \in DOMAIN c_children :
                    has_difference(mod, c_children[index], n_children[index])
    ELSE \E k \in DOMAIN new.children :
            LET n_child == new.children[k]
                same == {j \in DOMAIN current.children :
                            Get(current.children[j], "id") = Get(n_child, "id")}
                tagged == {j \in DOMAIN current.children :
                              current.children[j].tag = n_child.tag}
            IN  IF HasId(n_child)
                THEN \/ same = {}
                     \/ has_difference(mod, current.children[Min(same)], n_child)
                ELSE \/ tagged = {}
                     \/ has_difference(mod, current.children[Min(tagged)], n_child)

has_difference(mod, current, new) ==
    IF current.tag # new.tag THEN TRUE
    ELSE IF AttribDiffers(mod, current, new) THEN TRUE
    ELSE IF OrderedChildTag(mod, current.tag) # None
    THEN LET c_children == ChildrenWithTag(current, OrderedChildTag(mod, current.tag))
             n_children == ChildrenWithTag(new, OrderedChildTag(mod, current.tag))
         IN  \/ Len(c_children) # Len(n_children)
             \/ \E index \in DOMAIN c_children :
                    has_difference(mod, c_children[index], n_children[index])
    ELSE \E k \in DOMAIN new.children :
            LET n_child == new.children[k]
                same == {j \in DOMAIN current.children :
                            Get(current.children[j], "id") = Get(n_child, "id")}
            IN  IF HasId(n_child)
                THEN \/ same = {}
                     \/ has_difference(mod, current.children[Min(same)], n_child)
                ELSE \A j \in DOMAIN current.children :
                        current.children[j].tag = n_child.tag
                            => has_difference(mod, current.children[j], n_child)

----------------------------------------------------------------------------
(* What a main() hands back to the driver: whether it raised, the message, *)
(* result['changed'] at that point, the edited scope, and how many current *)
(* nodes it had found for the request.                                     *)

Raised(msg, changed, found) ==
    [failed |-> TRUE, msg |-> msg, changed |-> changed, scope |-> None,
     found |-> found, late |-> FALSE]

Returned(changed, scope, found) ==
    [failed |-> FALSE, msg |-> "", changed |-> changed, scope |-> scope,
     found |-> found, late |-> FALSE]

\* The absent branch of pacemaker_resource commits first and sets
\* result['changed'] afterwards: a failing commit reports changed = false.
ReturnedLate(changed, scope, found) ==
    [failed |-> FALSE, msg |-> "", changed |-> changed, scope |-> scope,
     found |-> found, late |-> TRUE]

\* list.remove(x) of an element that is no longer a child
RemoveError == "list.remove(x): x not in list"

\* `for node in nodes: constraints.remove(node)` raises on the second
\* removal of one element: `nodes` lists it twice.
RemovalRaises(nodes) == ~NoDuplicates(nodes)

----------------------------------------------------------------------------
(* pacemaker_colocation                                                    *)

append_colocation_node(resources, constraints, p) ==
    LET two     == Len(p.resource) = 2
        rsc      == IF two THEN p.resource[1] ELSE p.master
        with_rsc == IF two THEN p.resource[2] ELSE p.slave
        id       == "colocation-" \o rsc \o "-" \o with_rsc \o "-" \o p.score
        attrib   == IF two
                    THEN [id |-> id, rsc |-> rsc, score |-> p.score]
                         @@ ("with-rsc" :> with_rsc)
                    ELSE [id |-> id, rsc |-> rsc, score |-> p.score]
                         @@ ("with-rsc" :> with_rsc) @@ ("rsc-role" :> "Master")
                         @@ ("with-rsc-role" :> "Slave")
    IN  IF ~HasElementWithId(resources, rsc)
        THEN [ok |-> FALSE, msg |-> "no such resource: " \o rsc, node |-> None]
        ELSE IF ~HasElementWithId(resources, with_rsc)
        THEN [ok |-> FALSE, msg |-> "no such resource: " \o with_rsc, node |-> None]
        ELSE [ok |-> TRUE, msg |-> "",
              node |-> Element("rsc_colocation", attrib, <<>>)]

\* constraints.findall(".//rsc_colocation[@rsc='%s'][@with-rsc='%s']")
FindColocations(constraints, rsc, with_rsc) ==
    IdxSeq({i \in DOMAIN constraints.children :
                /\ constraints.children[i].tag = "rsc_colocation"
                /\ Get(constraints.children[i], "rsc") = rsc
                /\ Get(constraints.children[i], "with-rsc") = with_rsc},
           Len(constraints.children))

\* The checks of main() on its parameters, made before the CIB is fetched.
colocation_params_error(p) ==
    IF Len(p.resource) = 2
    THEN IF p.master # "" \/ p.slave # ""
         THEN "Can't use both master/slave and resource at once" ELSE ""
    ELSE IF Len(p.resource) = 0
    THEN IF p.master = "" \/ p.slave = ""
         THEN "Either master/slave set or resource is required" ELSE ""
    ELSE "resource parameter should have 2 resource ids"

colocation_main(cib, p) ==
    LET resources   == cib.resources
        constraints == cib.constraints
        x == IF Len(p.resource) # 0 THEN p.resource[1] ELSE p.master
        y == IF Len(p.resource) # 0 THEN p.resource[2] ELSE p.slave
        nodes == FindColocations(constraints, x, y)
                 \o FindColocations(constraints, y, x)
        found == Len(nodes)
        new   == append_colocation_node(resources, constraints, p)
        differs == \E k \in DOMAIN nodes :
                      has_difference("colocation",
                                     constraints.children[nodes[k]], new.node)
        without == RemoveIdx(constraints.children, Range(nodes))
    IN  IF p.state = "absent"
        THEN IF found = 0 THEN Returned(FALSE, constraints, found)
             ELSE IF RemovalRaises(nodes) THEN Raised(RemoveError, FALSE, found)
             ELSE Returned(TRUE, [constraints EXCEPT !.children = without], found)
        ELSE IF ~new.ok THEN Raised(new.msg, FALSE, found)
        ELSE IF found = 0
        THEN Returned(TRUE, SubElement(constraints, new.node), found)
        ELSE IF p.force \/ differs
        THEN IF RemovalRaises(nodes) THEN Raised(RemoveError, differs, found)
             ELSE Returned(TRUE,
                           [constraints EXCEPT !.children = Append(without, new.node)],
                           found)
        ELSE Returned(FALSE, constraints, found)

----------------------------------------------------------------------------
(* pacemaker_location                                                      *)

\* hosts.find(".//*[@uname='%s']") is not None
HasHost(hosts, uname) ==
    \E i \in DOMAIN Descendants(hosts) : Get(Descendants(hosts)[i], "uname") = uname

\* The node is built without looking the resource and the host up.
append_location_node_unchecked(resources, hosts, constraints, p) ==
    [ok |-> TRUE, msg |-> "",
     node |-> Element("rsc_location",
                      [id |-> "location-" \o p.resource \o "-" \o p.node
                              \o "-" \o p.score,
                       rsc |-> p.resource, node |-> p.node, score |-> p.score],
                      <<>>)]

append_location_node(resources, hosts, constraints, p) ==
    IF ~HasElementWithId(resources, p.resource)
    THEN [ok |-> FALSE, msg |-> "no such resource: " \o p.resource, node |-> None]
    ELSE IF ~HasHost(hosts, p.node)
    THEN [ok |-> FALSE, msg |-> "no such host: " \o p.node, node |-> None]
    ELSE [ok |-> TRUE, msg |-> "",
          node |-> Element("rsc_location",
                           [id |-> "location-" \o p.resource \o "-" \o p.node
                                   \o "-" \o p.score,
                            rsc |-> p.resource, node |-> p.node,
                            score |-> p.score],
                           <<>>)]

\* constraints.findall(".//rsc_location[@rsc='%s'][@node='%s']")
FindLocations(constraints, rsc, node) ==
    IdxSeq({i \in DOMAIN constraints.children :
                /\ constraints.children[i].tag = "rsc_location"
                /\ Get(constraints.children[i], "rsc") = rsc
                /\ Get(constraints.children[i], "node") = node},
           Len(constraints.children))

location_main(cib, p) ==
    LET resources   == cib.resources
        hosts       == cib.nodes
        constraints == cib.constraints
        nodes == FindLocations(constraints, p.resource, p.node)
        found == Len(nodes)
        new   == append_location_node(resources, hosts, constraints, p)
        differs == \E k \in DOMAIN nodes :
                      has_difference("location",
                                     constraints.children[nodes[k]], new.node)
        without == RemoveIdx(constraints.children, Range(nodes))
    IN  IF p.state = "absent"
        THEN IF found = 0 THEN Returned(FALSE, constraints, found)
             ELSE Returned(TRUE, [constraints EXCEPT !.children = without], found)
        ELSE IF ~new.ok THEN Raised(new.msg, FALSE, found)
        ELSE IF found = 0
        THEN Returned(TRUE, SubElement(constraints, new.node), found)
        ELSE IF p.force \/ differs
        THEN Returned(TRUE,
                      [constraints EXCEPT !.children = Append(without, new.node)],
                      found)
        ELSE Returned(FALSE, constraints, found)

----------------------------------------------------------------------------
(* pacemaker_order                                                         *)

\* The id is built from the two resource names alone; the keys of params
\* are merged over the fixed attributes.
append_rsc_order_node(root, p) ==
    LET attrib == [id |-> "order-" \o p.resource1 \o "-" \o p.resource2
                          \o "-mandatory",
                   first |-> p.resource1, then |-> p.resource2]
                  @@ ("first-action" :> p.resource1_action)
                  @@ ("then-action" :> p.resource2_action)
        params_dict == option_str_to_dict(p.params)
    IN  IF ~params_dict.ok
        THEN [ok |-> FALSE, msg |-> params_dict.msg, node |-> None]
        ELSE [ok |-> TRUE, msg |-> "",
              node |-> Element("rsc_order", Update(attrib, params_dict.dict), <<>>)]

\* constraints.findall('.//rsc_order[@first="%s"][@first-action="%s"]
\* [@then="%s"][@then-action="%s"]'); an action of None leaves its
\* predicate out.
FindOrders(constraints, first, first_action, then, then_action) ==
    IdxSeq({i \in DOMAIN constraints.children :
                /\ constraints.children[i].tag = "rsc_order"
                /\ Get(constraints.children[i], "first") = first
                /\ Get(constraints.children[i], "then") = then
                /\ first_action # None
                     => Get(constraints.children[i], "first-action") = first_action
                /\ then_action # None
                     => Get(constraints.children[i], "then-action") = then_action},
           Len(constraints.children))

\* resource_names = [x.get('id') for x in resources]: the top-level ids
ResourceNames(resources) ==
    {Get(resources.children[i], "id") : i \in DOMAIN resources.children}

order_main(cib, p) ==
    LET resources   == cib.resources
        constraints == cib.constraints
        nodes == FindOrders(constraints, p.resource1, p.resource1_action,
                            p.resource2, p.resource2_action)
        found == Len(nodes)
        new   == append_rsc_order_node(constraints, p)
        removed == {nodes[k] : k \in {k \in DOMAIN nodes :
                        \/ p.force
                        \/ has_difference("order",
                                          constraints.children[nodes[k]], new.node)}}
    IN  IF p.resource1 \notin ResourceNames(resources)
        THEN Raised("no such resource: " \o p.resource1, FALSE, 0)
        ELSE IF p.resource2 \notin ResourceNames(resources)
        THEN Raised("no such resource: " \o p.resource2, FALSE, 0)
        ELSE IF p.state = "absent"
        THEN \* the nodes are looked up and then left alone
             Returned(FALSE, constraints, found)
        ELSE IF ~new.ok THEN Raised(new.msg, FALSE, found)
        ELSE IF found = 0
        THEN Returned(TRUE, SubElement(constraints, new.node), found)
        ELSE IF removed # {}
        THEN Returned(TRUE,
                      [constraints EXCEPT
                          !.children = Append(RemoveIdx(@, removed), new.node)],
                      found)
        ELSE Returned(FALSE, constraints, found)

----------------------------------------------------------------------------
(* The driver part every main() shares: fetch, run, commit when changed    *)
(* outside check mode, report.  cibadmin may exit non-zero on the query    *)
(* and on the replace; either ends the run in fail_json.                   *)

Present == [state |-> "present", force |-> FALSE]

Absent == [state |-> "absent", force |-> FALSE]

NoRun ==
    [kind |-> "none", req |-> <<>>, check |-> FALSE, failed |-> FALSE,
     msg |-> "", changed |-> FALSE, fetches |-> 0, commits |-> 0,
     found |-> 0, before |-> <<>>, rep |-> 0,
     first |-> [found |-> 0, changed |-> FALSE, commits |-> 0],
     exits |-> <<>>]

\* The two playbook runs that may be under way at once, and the state of
\* one that has not fetched yet.
Runners == {"first", "second"}

Idle == [phase |-> "idle"]

NoneRunning == [r \in Runners |-> Idle]

\* How many earlier runs, immediately before this one, made the same request
\* and ended in exit_json.
MaxRep == 2

Repetitions(kind, req, check) ==
    IF last.kind = kind /\ last.req = req /\ last.check = check /\ ~last.failed
    THEN IF last.rep < MaxRep THEN last.rep + 1 ELSE MaxRep
    ELSE 0

\* `exits` lists the exit statuses of the cibadmin calls of the run, in the
\* order they were made.
Report(kind, req, check, failed, msg, changed, fetches, commits, found, exits) ==
    [kind |-> kind, req |-> req, check |-> check, failed |-> failed,
     msg |-> msg, changed |-> changed, fetches |-> fetches,
     commits |-> commits, found |-> found, before |-> doc,
     rep |-> Repetitions(kind, req, check),
     first |-> IF Repetitions(kind, req, check) = 0
               THEN [found |-> found, changed |-> changed, commits |-> commits]
               ELSE last.first,
     exits |-> exits]

CommandFailed == "cibadmin exited non-zero"

\* A drive in which check mode does not hold the commit back.
DriveCommittingInCheck(kind, scope, req, check, env, res) ==
    LET committed == env = "ok" /\ ~res.failed /\ res.changed
    IN  /\ doc' = IF committed THEN [doc EXCEPT ![scope] = res.scope] ELSE doc
        /\ last' = Report(kind, req, check, res.failed \/ env # "ok",
                          IF res.failed THEN res.msg
                          ELSE IF env # "ok" THEN CommandFailed ELSE "",
                          res.changed /\ env = "ok", 1,
                          IF committed THEN 1 ELSE 0, res.found,
                          IF env = "query fails" THEN <<1>>
                          ELSE IF committed THEN <<0, 0>> ELSE <<0>>)
        /\ UNCHANGED running

\* A drive that reports the run as done although the replace exited non-zero.
DriveReportingSuccess(kind, scope, req, check, env, res) ==
    LET fetchOk == env # "query fails"
        attempt == fetchOk /\ ~res.failed /\ res.changed /\ ~check
    IN  /\ doc' = IF attempt /\ env = "ok"
                  THEN [doc EXCEPT ![scope] = res.scope] ELSE doc
        /\ last' = IF ~fetchOk
                   THEN Report(kind, req, check, TRUE, CommandFailed, FALSE, 1, 0, 0,
                               <<1>>)
                   ELSE Report(kind, req, check, res.failed, res.msg, res.changed,
                               1, IF attempt THEN 1 ELSE 0, res.found,
                               IF ~attempt THEN <<0>>
                               ELSE IF env = "ok" THEN <<0, 0>> ELSE <<0, 1>>)
        /\ UNCHANGED running

\* A drive that writes the scope back whether or not the run changed it.
DriveCommittingUnchanged(kind, scope, req, check, env, res) ==
    LET fetchOk  == env # "query fails"
        commitOk == env # "replace fails"
        attempt  == fetchOk /\ ~res.failed /\ ~check
    IN  /\ doc' = IF attempt /\ commitOk
                  THEN [doc EXCEPT ![scope] = res.scope] ELSE doc
        /\ last' = IF ~fetchOk
                   THEN Report(kind, req, check, TRUE, CommandFailed, FALSE, 1, 0, 0,
                               <<1>>)
                   ELSE Report(kind, req, check,
                               res.failed \/ (attempt /\ ~commitOk),
                               IF res.failed THEN res.msg
                               ELSE IF attempt /\ ~commitOk THEN CommandFailed
                               ELSE "",
                               res.changed, 1, IF attempt THEN 1 ELSE 0, res.found,
                               IF ~attempt THEN <<0>>
                               ELSE IF commitOk THEN <<0, 0>> ELSE <<0, 1>>)
        /\ UNCHANGED running

\* `scope` names the scope the module replaces; res is what main() computed
\* on the fetched CIB.
Drive(kind, scope, req, check, env, res) ==
    LET fetchOk  == env # "query fails"
        commitOk == env # "replace fails"
        attempt  == fetchOk /\ ~res.failed /\ res.changed /\ ~check
    IN  /\ doc' = IF attempt /\ commitOk
                  THEN [doc EXCEPT ![scope] = res.scope] ELSE doc
        /\ last' = IF ~fetchOk
                   THEN Report(kind, req, check, TRUE, CommandFailed, FALSE, 1, 0, 0,
                               <<1>>)
                   ELSE Report(kind, req, check,
                               res.failed \/ (attempt /\ ~commitOk),
                               IF res.failed THEN res.msg
                               ELSE IF attempt /\ ~commitOk THEN CommandFailed
                               ELSE "",
                               res.changed /\ ~(res.late /\ attempt /\ ~commitOk),
                               1, IF attempt THEN 1 ELSE 0, res.found,
                               IF ~attempt THEN <<0>>
                               ELSE IF commitOk THEN <<0, 0>> ELSE <<0, 1>>)
        /\ UNCHANGED running

----------------------------------------------------------------------------
(* The cluster the constraint modules run against: two resources, one      *)
(* host.                                                                   *)

Primitive(name) ==
    Element("primitive",
            [id |-> name, class |-> "ocf", provider |-> "heartbeat",
             type |-> "Dummy"],
            <<Element("operations", NoAttrib, <<>>)>>)

Host(uname) == Element("node", [id |-> uname, uname |-> uname], <<>>)

EmptyScope(tag) == Element(tag, NoAttrib, <<>>)

ClusterDoc(resources, constraints) ==
    [resources     |-> Element("resources", NoAttrib, resources),
     constraints   |-> Element("constraints", NoAttrib, constraints),
     nodes         |-> Element("nodes", NoAttrib, <<Host("n1")>>),
     crm_config    |-> EmptyScope("crm_config"),
     configuration |-> EmptyScope("configuration")]

\* Requests of the playbooks the model runs.  "Z" and "n9" name a resource
\* and a host the cluster does not have.  force is only read on the present
\* path, so an absent request is taken without it.
Modes == {[state |-> "present", force |-> FALSE],
          [state |-> "present", force |-> TRUE],
          [state |-> "absent", force |-> FALSE]}

ColocationRequest(master, slave, resource, score, mode) ==
    [master |-> master, slave |-> slave, resource |-> resource,
     score |-> score, option |-> "", state |-> mode.state, force |-> mode.force]

ColocationRequests ==
    {ColocationRequest("", "", r, s, m) :
        r \in {<<"A", "B">>, <<"B", "A">>}, s \in {"INFINITY", "100"},
        m \in Modes}
    \cup {ColocationRequest("", "", <<"A", "A">>, "INFINITY", m) : m \in Modes}
    \cup {ColocationRequest(r[1], r[2], <<>>, "INFINITY", m) :
            r \in {<<"A", "B">>, <<"B", "A">>}, m \in Modes}
    \cup {ColocationRequest("", "", <<"A", "Z">>, "INFINITY", Present),
          ColocationRequest("A", "", <<>>, "INFINITY", Present),
          ColocationRequest("A", "B", <<"A", "B">>, "INFINITY", Present),
          ColocationRequest("", "", <<"A">>, "INFINITY", Present)}

LocationRequest(resource, node, score, mode) ==
    [resource |-> resource, node |-> node, score |-> score,
     state |-> mode.state, force |-> mode.force]

LocationRequests ==
    {LocationRequest(r, "n1", s, m) :
        r \in {"A", "B"}, s \in {"INFINITY", "100"}, m \in Modes}
    \cup {LocationRequest("Z", "n1", "INFINITY", Present),
          LocationRequest("A", "n9", "INFINITY", Present)}

OrderRequest(resource1, resource1_action, resource2, params, mode) ==
    [resource1 |-> resource1, resource1_action |-> resource1_action,
     resource2 |-> resource2, resource2_action |-> "start", params |-> params,
     state |-> mode.state, force |-> mode.force]

OrderRequests ==
    {OrderRequest("A", a, "B", ps, m) :
        a \in {"start", "promote"},
        ps \in {NoBlob, Blob(<<<<"kind", "Optional">>>>)}, m \in Modes}
    \cup {OrderRequest("Z", "start", "B", NoBlob, Present),
          OrderRequest("A", "start", "Z", NoBlob, Absent),
          OrderRequest("A", "start", "B", Blob(<<<<"symmetrical">>>>), Present)}

\* What cibadmin does in one run: both calls succeed, the query exits
\* non-zero, or the replace does.
Cibadmin == {"ok", "query fails", "replace fails"}

\* One playbook configures one kind of object: a run follows runs of its own
\* module.
Follows(kind) == last.kind \in {"none", kind}

RunColocation ==
    /\ Follows("colocation")
    /\ \E p \in ColocationRequests, check \in BOOLEAN :
          IF colocation_params_error(p) # ""
          THEN /\ last' = Report("colocation", p, check, TRUE,
                                 colocation_params_error(p), FALSE, 0, 0, 0, <<>>)
               /\ UNCHANGED <<doc, running>>
          ELSE \E res \in {colocation_main(doc, p)}, env \in Cibadmin :
                  Drive("colocation", "constraints", p, check, env, res)

RunLocation ==
    /\ Follows("location")
    /\ \E p \in LocationRequests :
          \E res \in {location_main(doc, p)}, check \in BOOLEAN, env \in Cibadmin :
              Drive("location", "constraints", p, check, env, res)

RunOrder ==
    /\ Follows("order")
    /\ \E p \in OrderRequests :
          \E res \in {order_main(doc, p)}, check \in BOOLEAN, env \in Cibadmin :
              Drive("order", "constraints", p, check, env, res)

\* The constraints another tool (pcs) may have left in the scope.
ForeignConstraints ==
    <<Element("rsc_location",
              [id |-> "location-B-n1-50", rsc |-> "B", node |-> "n1",
               score |-> "50"], <<>>),
      Element("rsc_order",
              [id |-> "order-B-A-mandatory", first |-> "B", then |-> "A"]
              @@ ("first-action" :> "start") @@ ("then-action" :> "start"),
              <<>>),
      Element("rsc_colocation",
              [id |-> "colocation-B-B-INFINITY", rsc |-> "B",
               score |-> "INFINITY"] @@ ("with-rsc" :> "B"), <<>>)>>

InitConstraints ==
    /\ doc \in {ClusterDoc(<<Primitive("A"), Primitive("B")>>, c) :
                    c \in {<<>>, ForeignConstraints}}
    /\ last = NoRun
    /\ running = NoneRunning

NextConstraints == RunColocation \/ RunLocation \/ RunOrder

SpecConstraints == InitConstraints /\ [][NextConstraints]_vars

----------------------------------------------------------------------------
(* Properties of the constraint modules, checked under SpecConstraints.    *)

\* The run ended in exit_json, or in a fail_json that cibadmin did not cause.
CibadminWorked == last.msg # CommandFailed

\* A present request, force off, check mode off, that ended in exit_json.
PlainPresent ==
    /\ ~last.failed
    /\ last.req.state = "present"
    /\ ~last.req.force
    /\ ~last.check

\* C1: for colocation, location and order, a present request (force off,
\* check mode off) that found no constraint for its participants reports
\* changed = true and commits; every identical request that follows it
\* reports changed = false, issues no commit and leaves the persisted
\* constraints scope as it was.
C1_ConstraintIdempotent ==
    ( /\ last.kind \in {"colocation", "location", "order"}
      /\ PlainPresent
      /\ last.rep >= 1
      /\ last.first.found = 0 )
    => /\ last.first.changed
       /\ last.first.commits = 1
       /\ ~last.changed
       /\ last.commits = 0
       /\ doc.constraints = last.before.constraints

C1_Witness ==
    /\ last.kind = "order"
    /\ PlainPresent
    /\ last.rep >= 2
    /\ last.first.found = 0
    /\ last.first.changed
    /\ ~last.changed

\* The colocations of `constraints` that relate x and y, in either direction.
Relating(constraints, x, y) ==
    {i \in DOMAIN constraints.children :
        /\ constraints.children[i].tag = "rsc_colocation"
        /\ {Get(constraints.children[i], "rsc"),
            Get(constraints.children[i], "with-rsc")} = {x, y}}

\* The node a present request for resource = [x, y] with this score appends.
ListColocation(x, y, score) ==
    Element("rsc_colocation",
            [id |-> "colocation-" \o x \o "-" \o y \o "-" \o score,
             rsc |-> x, score |-> score] @@ ("with-rsc" :> y),
            <<>>)

\* The scope held, when the run began, exactly one colocation relating the
\* two resources of the request: the one a request for them in the opposite
\* order, with the same score, creates.
HeldMirror ==
    LET r == last.req.resource
        c == last.before.constraints
    IN  /\ Len(r) = 2
        /\ r[1] # r[2]
        /\ Cardinality(Relating(c, r[1], r[2])) = 1
        /\ \A i \in Relating(c, r[1], r[2]) :
              c.children[i] = ListColocation(r[2], r[1], last.req.score)

\* C4: with a colocation for (A, B, S) in the scope, a present request
\* (force off) for (B, A, S) reports changed = false, issues no commit, and
\* the scope still holds exactly one rsc_colocation relating A and B.
C4_ColocationSymmetry ==
    ( /\ last.kind = "colocation"
      /\ ~last.failed
      /\ last.req.state = "present"
      /\ ~last.req.force
      /\ HeldMirror )
    => /\ ~last.changed
       /\ last.commits = 0
       /\ doc.constraints = last.before.constraints
       /\ Cardinality(Relating(doc.constraints, last.req.resource[1],
                               last.req.resource[2])) = 1

C4_Witness ==
    /\ last.kind = "colocation"
    /\ PlainPresent
    /\ HeldMirror
    /\ last.req.resource = <<"B", "A">>
    /\ last.found = 1
    /\ ~last.changed

\* C5: no two nodes of the persisted constraints scope carry the same id.
C5_UniqueConstraintIds == NoDuplicates(IdsOf(doc.constraints))

\* The nodes the request of the last run names are gone from the scope.
RequestedColocationsGone ==
    LET x == IF Len(last.req.resource) # 0
             THEN last.req.resource[1] ELSE last.req.master
        y == IF Len(last.req.resource) # 0
             THEN last.req.resource[2] ELSE last.req.slave
    IN  Relating(doc.constraints, x, y) = {}

RequestedLocationsGone ==
    FindLocations(doc.constraints, last.req.resource, last.req.node) = <<>>

\* C8 (colocation and location): an absent request removes every node it
\* found and reports changed = true; when it found none it reports
\* changed = false and commits nothing.
C8_AbsentRemovesFound ==
    ( /\ last.kind \in {"colocation", "location"}
      /\ last.req.state = "absent"
      /\ ~last.check
      /\ last.fetches = 1
      /\ CibadminWorked )
    => IF last.found > 0
       THEN /\ ~last.failed
            /\ last.changed
            /\ last.commits = 1
            /\ IF last.kind = "colocation"
               THEN RequestedColocationsGone ELSE RequestedLocationsGone
       ELSE /\ ~last.failed
            /\ ~last.changed
            /\ last.commits = 0

\* C9: an absent order request that found rsc_order nodes for its first,
\* first-action, then and then-action removes them and reports
\* changed = true.
C9_OrderAbsentRemoves ==
    ( /\ last.kind = "order"
      /\ last.req.state = "absent"
      /\ ~last.check
      /\ ~last.failed
      /\ last.found > 0 )
    => /\ last.changed
       /\ FindOrders(doc.constraints, last.req.resource1,
                     last.req.resource1_action, last.req.resource2,
                     last.req.resource2_action) = <<>>

----------------------------------------------------------------------------
(* Places in a tree.  A path is the list of child indexes that leads from  *)
(* the root to an element; <<>> is the root itself.                        *)

\* The paths of every element below `root`, in document order.
RECURSIVE Paths(_)
RECURSIVE PathsFrom(_, _)
PathsFrom(children, i) ==
    IF i > Len(children) THEN <<>>
    ELSE LET below == Paths(children[i])
         IN  <<<<i>>>> \o [k \in DOMAIN below |-> <<i>> \o below[k]]
             \o PathsFrom(children, i + 1)
Paths(root) == PathsFrom(root.children, 1)

RECURSIVE NodeAt(_, _)
NodeAt(root, path) ==
    IF path = <<>> THEN root
    ELSE NodeAt(root.children[Head(path)], Tail(path))

\* The tree with the element at `path` replaced by `node`.
RECURSIVE ReplaceAt(_, _, _)
ReplaceAt(root, path, node) ==
    IF path = <<>> THEN node
    ELSE [root EXCEPT !.children[Head(path)] = ReplaceAt(@, Tail(path), node)]

\* The path of the parent: `/..`
ParentPath(path) == SubSeq(path, 1, Len(path) - 1)

\* parent.remove(child): the tree without the element at `path`.
RemoveAt(root, path) ==
    LET parent == NodeAt(root, ParentPath(path))
    IN  ReplaceAt(root, ParentPath(path),
                  [parent EXCEPT
                      !.children = RemoveIdx(@, {path[Len(path)]})])

\* parent.append(child) / ET.SubElement(parent, ...): `node` becomes the last
\* child of the element at `path`.
AppendAt(root, path, node) ==
    ReplaceAt(root, path, SubElement(NodeAt(root, path), node))

\* The path of the last child of the element at `path`.
LastChildPath(root, path) ==
    Append(path, Len(NodeAt(root, path).children))

\* cib.find('.//tag[@id="..."]'): the paths of the matches, in document order.
FindTagId(root, tag, id) ==
    LET ps == Paths(root)
    IN  SelectIdx(ps, {k \in DOMAIN ps :
                          /\ NodeAt(root, ps[k]).tag = tag
                          /\ Get(NodeAt(root, ps[k]), "id") = id}, 1)

\* root.find(".//*[@id='...']"): the paths of the matches, in document order.
FindId(root, id) ==
    LET ps == Paths(root)
    IN  SelectIdx(ps, {k \in DOMAIN ps : Get(NodeAt(root, ps[k]), "id") = id}, 1)

\* The index of the first child with this tag, 0 when there is none:
\* res.find('./tag')
FirstChild(node, tag) ==
    LET ix == {i \in DOMAIN node.children : node.children[i].tag = tag}
    IN  IF ix = {} THEN 0 ELSE Min(ix)

----------------------------------------------------------------------------
(* pacemaker_resource: the builders                                        *)

\* The keys of the tokens s[1..n], each once, in the order of their first
\* occurrence; a token without '=' sets the key "name".
TokenKey(token) == IF Len(token) = 1 THEN "name" ELSE token[1]

TokenValue(token) == IF Len(token) = 1 THEN token[1] ELSE token[2]

RECURSIVE TokenKeys(_, _)
TokenKeys(s, n) ==
    IF n = 0 THEN <<>>
    ELSE LET before == TokenKeys(s, n - 1)
         IN  IF TokenKey(s[n]) \in Range(before) THEN before
             ELSE Append(before, TokenKey(s[n]))

RECURSIVE NameTokensToDict(_, _)
NameTokensToDict(s, n) ==
    IF n = 0 THEN <<>>
    ELSE (TokenKey(s[n]) :> TokenValue(s[n])) @@ NameTokensToDict(s, n - 1)

\* option_str_to_dict of pacemaker_resource and pacemaker_resource_group: a
\* token without '=' is the value of the key "name".  `keys` lists the keys
\* in the order the nvpairs are built in.
option_str_to_name_dict(opts) ==
    LET t == opts.tokens
    IN  IF ~opts.given THEN [ok |-> TRUE, dict |-> <<>>, keys |-> <<>>, msg |-> ""]
        ELSE IF \E i \in DOMAIN t : Len(t[i]) = 2 /\ t[i][2] = ""
        THEN [ok |-> FALSE, dict |-> <<>>, keys |-> <<>>,
              msg |-> "string index out of range"]
        ELSE [ok |-> TRUE, dict |-> NameTokensToDict(t, Len(t)),
              keys |-> TokenKeys(t, Len(t)), msg |-> ""]

\* "%s-%s" % (parent_id, name)
Dash(a, b) == a \o "-" \o b

append_nvpair_node(parent_id, name, value) ==
    Element("nvpair",
            [id |-> Dash(parent_id, name), name |-> name, value |-> value],
            <<>>)

\* The nvpair children for the keys `keys` of `dict`.
NvPairs(node_id, keys, dict) ==
    [k \in DOMAIN keys |-> append_nvpair_node(node_id, keys[k], dict[keys[k]])]

append_meta_attribute_node(parent_id, keys, dict) ==
    Element("meta_attributes", [id |-> Dash(parent_id, "meta_attributes")],
            NvPairs(Dash(parent_id, "meta_attributes"), keys, dict))

append_instance_attribute_node(parent_id, keys, dict) ==
    Element("instance_attributes",
            [id |-> Dash(parent_id, "instance_attributes")],
            NvPairs(Dash(parent_id, "instance_attributes"), keys, dict))

\* An op string that cannot be turned into an op element: no name, or `key=`.
BadOp(o) ==
    \/ ~option_str_to_name_dict(o).ok
    \/ "name" \notin DOMAIN option_str_to_name_dict(o).dict

append_op_node(parent_id, o) ==
    LET d        == option_str_to_name_dict(o).dict
        interval == IF "interval" \in DOMAIN d THEN d.interval ELSE "0s"
    IN  Element("op",
                [id |-> parent_id \o "-" \o d.name \o "-interval-" \o interval,
                 interval |-> interval] @@ d,
                <<>>)

append_operations_node(parent_id, op) ==
    Element("operations", NoAttrib,
            [k \in DOMAIN op |-> append_op_node(parent_id, op[k])])

Built(node) == [ok |-> TRUE, msg |-> "", node |-> node]

NotBuilt(msg) == [ok |-> FALSE, msg |-> msg, node |-> None]

\* type.split(':') gives three parts (class, provider, type) or two (class,
\* type); a missing type and any other number of parts raise.
append_resource_node(p) ==
    LET meta_dict   == option_str_to_name_dict(p.meta)
        params_dict == option_str_to_name_dict(p.params)
        attrib == IF Len(p.type.parts) = 3
                  THEN [id |-> p.name, class |-> p.type.parts[1],
                        provider |-> p.type.parts[2], type |-> p.type.parts[3]]
                  ELSE [id |-> p.name, class |-> p.type.parts[1],
                        type |-> p.type.parts[2]]
    IN  IF ~p.type.given
        THEN NotBuilt("'NoneType' object has no attribute 'split'")
        ELSE IF Len(p.type.parts) \notin {2, 3}
        THEN NotBuilt("need more than 1 value to unpack")
        ELSE IF ~meta_dict.ok THEN NotBuilt(meta_dict.msg)
        ELSE IF ~params_dict.ok THEN NotBuilt(params_dict.msg)
        ELSE IF \E k \in DOMAIN p.op : BadOp(p.op[k])
        THEN NotBuilt("'name'")
        ELSE Built(Element("primitive", attrib,
                (IF meta_dict.keys # <<>>
                 THEN <<append_meta_attribute_node(p.name, meta_dict.keys,
                                                   meta_dict.dict)>>
                 ELSE <<>>)
                \o (IF params_dict.keys # <<>>
                    THEN <<append_instance_attribute_node(p.name,
                               params_dict.keys, params_dict.dict)>>
                    ELSE <<>>)
                \o <<append_operations_node(p.name, p.op)>>))

\* meta_dict.pop('id', '%s-clone' % name): the wrapper's id and the keys left
WrapperId(d, default) == IF "id" \in DOMAIN d.dict THEN d.dict.id ELSE default

WrapperKeys(d) == SelectIdx(d.keys, {k \in DOMAIN d.keys : d.keys[k] # "id"}, 1)

\* The clone holds its meta_attributes first, then the primitive.
append_clone_node(p) ==
    LET meta_dict == option_str_to_name_dict(p.clone)
        node_id   == WrapperId(meta_dict, Dash(p.name, "clone"))
        resource  == append_resource_node(p)
    IN  IF ~meta_dict.ok THEN NotBuilt(meta_dict.msg)
        ELSE IF ~resource.ok THEN resource
        ELSE Built(Element("clone", [id |-> node_id],
                <<append_meta_attribute_node(node_id, WrapperKeys(meta_dict),
                                             meta_dict.dict),
                  resource.node>>))

\* The master holds the primitive first, then its meta_attributes.
append_master_node(p) ==
    LET meta_dict == option_str_to_name_dict(p.master)
        node_id   == WrapperId(meta_dict, Dash(p.name, "master"))
        resource  == append_resource_node(p)
    IN  IF ~meta_dict.ok THEN NotBuilt(meta_dict.msg)
        ELSE IF ~resource.ok THEN resource
        ELSE Built(Element("master", [id |-> node_id],
                <<resource.node,
                  append_meta_attribute_node(node_id, WrapperKeys(meta_dict),
                                             meta_dict.dict)>>))

----------------------------------------------------------------------------
(* pacemaker_resource: enabling and disabling                              *)

\* meta.find("./nvpair[@name='target-role']"): its index, 0 when none
TargetRoleIndex(meta) ==
    LET ix == {i \in DOMAIN meta.children :
                  /\ meta.children[i].tag = "nvpair"
                  /\ Get(meta.children[i], "name") = "target-role"}
    IN  IF ix = {} THEN 0 ELSE Min(ix)

is_enabled(res) ==
    LET m == FirstChild(res, "meta_attributes")
    IN  \/ m = 0
        \/ TargetRoleIndex(res.children[m]) = 0
        \/ Get(res.children[m].children[TargetRoleIndex(res.children[m])],
               "value") # "Stopped"

\* The element with the marker target-role=Stopped removed (enabled) or set
\* (disabled); a missing meta_attributes child is created either way.
set_resource_status(res, enabled) ==
    LET name == Get(res, "id")
        had  == FirstChild(res, "meta_attributes") # 0
        with == IF had THEN res
                ELSE SubElement(res, append_meta_attribute_node(name, <<>>, <<>>))
        m    == FirstChild(with, "meta_attributes")
        meta == with.children[m]
        t    == TargetRoleIndex(meta)
        marker == Element("nvpair",
                          [id |-> name \o "-meta_attributes-target-role",
                           name |-> "target-role", value |-> "Stopped"],
                          <<>>)
    IN  IF enabled
        THEN IF t # 0
             THEN [with EXCEPT !.children[m].children = RemoveIdx(@, {t})]
             ELSE with
        ELSE IF t # 0
             THEN [with EXCEPT !.children[m].children[t].attrib.value = "Stopped"]
             ELSE [with EXCEPT !.children[m] = SubElement(@, marker)]

----------------------------------------------------------------------------
(* pacemaker_resource: main                                                *)

\* The element main() calls `node` after the topology step: an element of
\* the tree that will be committed (live, at `path`), or one that was removed
\* from it and is only still referenced (`elem`).
Live(path) == [live |-> TRUE, path |-> path, elem |-> None]

Detached(elem) == [live |-> FALSE, path |-> <<>>, elem |-> elem]

Topology(changed, cib, node) ==
    [failed |-> FALSE, msg |-> "", changed |-> changed, cib |-> cib,
     node |-> node]

TopologyRaised(msg) ==
    [failed |-> TRUE, msg |-> msg, changed |-> FALSE, cib |-> None,
     node |-> None]

Wrappers == {"clone", "master"}

\* `parent_node, node = append_resource_node(cib, ...)`: the returned
\* primitive is unpacked into its children, which works for exactly two.
UnpackError(n) ==
    IF n < 2 THEN "need more than 1 value to unpack"
    ELSE "too many values to unpack"

\* The element the request describes, built by the function main() calls
\* for it: master wins over clone, `wrapper` is false when main() asks for
\* the bare primitive whatever the request says.
RequestedNode(p, wrapper) ==
    IF wrapper /\ p.master.given THEN append_master_node(p)
    ELSE IF wrapper /\ p.clone.given THEN append_clone_node(p)
    ELSE append_resource_node(p)

\* node is None: the resource, `built`, is created below the scope root.
resource_create(cib, p, built) ==
    LET with == AppendAt(cib, <<>>, built.node)
        top  == LastChildPath(with, <<>>)
    IN  IF ~built.ok THEN TopologyRaised(built.msg)
        ELSE IF p.master.given THEN Topology(TRUE, with, Live(Append(top, 1)))
        ELSE IF p.clone.given THEN Topology(TRUE, with, Live(Append(top, 2)))
        ELSE IF Len(built.node.children) # 2
        THEN TopologyRaised(UnpackError(Len(built.node.children)))
        ELSE Topology(TRUE, with, Live(Append(top, 2)))

\* The primitive at `np` sits in a clone or master and a clone or master is
\* requested: the new wrapper, `built`, is compared with the current one.
resource_rewrap(cib, p, np, built) ==
    LET pp    == ParentPath(np)
        gp    == ParentPath(pp)
        with  == AppendAt(RemoveAt(cib, pp), gp, built.node)
        new_node == Append(LastChildPath(with, gp),
                           IF p.master.given THEN 1 ELSE 2)
    IN  IF ~built.ok THEN TopologyRaised(built.msg)
        ELSE IF p.force \/ has_difference("resource", NodeAt(cib, pp), built.node)
        THEN Topology(TRUE, with, Live(new_node))
        ELSE Topology(FALSE, cib, Live(np))

\* The primitive at `np` is not wrapped and a clone or master is requested:
\* it is removed and the wrapper, `built`, appended to its parent.  After
\* the master case `node` is still the removed primitive.
resource_wrap(cib, p, np, built) ==
    LET pp    == ParentPath(np)
        with  == AppendAt(RemoveAt(cib, np), pp, built.node)
    IN  IF ~built.ok THEN TopologyRaised(built.msg)
        ELSE IF p.master.given
        THEN Topology(TRUE, with, Detached(NodeAt(cib, np)))
        ELSE Topology(TRUE, with, Live(Append(LastChildPath(with, pp), 2)))

\* The new primitive is appended and the wrapper, with the old primitive in
\* it, is left where it was.
resource_unwrap_keeping_wrapper(cib, p, np, built) ==
    IF ~built.ok THEN TopologyRaised(built.msg)
    ELSE Topology(TRUE, AppendAt(cib, ParentPath(ParentPath(np)), built.node),
                  Detached(NodeAt(cib, np)))

\* The primitive at `np` sits in a clone or master and neither is requested:
\* the wrapper is removed and the new primitive, `built`, appended to the
\* wrapper's parent; `node` is still the old primitive.
resource_unwrap(cib, p, np, built) ==
    IF ~built.ok THEN TopologyRaised(built.msg)
    ELSE Topology(TRUE,
                  AppendAt(RemoveAt(cib, ParentPath(np)),
                           ParentPath(ParentPath(np)), built.node),
                  Detached(NodeAt(cib, np)))

\* The primitive at `np` is replaced whenever it is not the built one, child
\* for child.
resource_update_on_any_change(cib, p, np, built) ==
    LET pp    == ParentPath(np)
        with  == AppendAt(RemoveAt(cib, np), pp, built.node)
    IN  IF ~built.ok THEN TopologyRaised(built.msg)
        ELSE IF p.force \/ NodeAt(cib, np) # built.node
        THEN Topology(TRUE, with, Live(LastChildPath(with, pp)))
        ELSE Topology(FALSE, cib, Live(np))

\* The primitive at `np` is not wrapped and no wrapper is requested: the new
\* primitive, `built`, is compared with it.
resource_update(cib, p, np, built) ==
    LET pp    == ParentPath(np)
        with  == AppendAt(RemoveAt(cib, np), pp, built.node)
    IN  IF ~built.ok THEN TopologyRaised(built.msg)
        ELSE IF p.force \/ has_difference("resource", NodeAt(cib, np), built.node)
        THEN Topology(TRUE, with, Live(LastChildPath(with, pp)))
        ELSE Topology(FALSE, cib, Live(np))

\* The present / enabled / disabled branch up to `# Start/stop the resource`;
\* `found` lists the places of the primitives with the requested name.
resource_topology(cib, p, found) ==
    LET np      == found[1]
        wrapped == NodeAt(cib, ParentPath(np)).tag \in Wrappers
    IN  IF found = <<>> THEN resource_create(cib, p, RequestedNode(p, TRUE))
        ELSE IF p.master.given \/ p.clone.given
        THEN IF wrapped THEN resource_rewrap(cib, p, np, RequestedNode(p, TRUE))
             ELSE resource_wrap(cib, p, np, RequestedNode(p, TRUE))
        ELSE IF wrapped THEN resource_unwrap(cib, p, np, RequestedNode(p, FALSE))
             ELSE resource_update(cib, p, np, RequestedNode(p, FALSE))

\* `# Start/stop the resource as needed`, applied to what `node` refers to
\* after the topology step `t`, and what main() hands back.
resource_status(t, state, n) ==
    LET elem    == IF t.node.live THEN NodeAt(t.cib, t.node.path) ELSE t.node.elem
        switch  == \/ state = "enabled" /\ ~is_enabled(elem)
                   \/ state = "disabled" /\ is_enabled(elem)
    IN  IF t.failed THEN Raised(t.msg, FALSE, n)
        ELSE IF ~switch THEN Returned(t.changed, t.cib, n)
        ELSE IF ~t.node.live THEN Returned(TRUE, t.cib, n)
        ELSE Returned(TRUE,
                      ReplaceAt(t.cib, t.node.path,
                                set_resource_status(elem, state = "enabled")),
                      n)

resource_main(cib, p) ==
    LET found   == FindTagId(cib, "primitive", p.name)
        np      == found[1]
        wrapped == NodeAt(cib, ParentPath(np)).tag \in Wrappers
    IN  IF p.state = "absent"
        THEN IF found = <<>> THEN Returned(FALSE, cib, 0)
             ELSE IF wrapped
             THEN ReturnedLate(TRUE, RemoveAt(cib, ParentPath(np)), 1)
             ELSE ReturnedLate(TRUE, RemoveAt(cib, np), 1)
        ELSE resource_status(resource_topology(cib, p, found), p.state,
                             IF found = <<>> THEN 0 ELSE 1)

----------------------------------------------------------------------------
(* The playbooks of pacemaker_resource: one resource P, in a scope that    *)
(* holds another primitive Q.                                              *)

NoType == [given |-> FALSE, parts |-> <<>>]

Type(parts) == [given |-> TRUE, parts |-> parts]

Dummy == Type(<<"ocf", "pacemaker", "Dummy">>)

ResourceRequest(type, params, meta, op, clone, master, state, force) ==
    [name |-> "P", type |-> type, params |-> params, meta |-> meta, op |-> op,
     clone |-> clone, master |-> master, state |-> state, force |-> force]

Meta == Blob(<<<<"is-managed", "true">>>>)

Params == Blob(<<<<"ip", "10.0.0.1">>>>)

CloneMax == Blob(<<<<"clone-max", "2">>>>)

MasterMax == Blob(<<<<"master-max", "2">>>>)

Monitor == Blob(<<<<"monitor">>, <<"interval", "20s">>>>)

\* bare, clone, master
Forms == {<<NoBlob, NoBlob>>, <<CloneMax, NoBlob>>, <<NoBlob, MasterMax>>}

ResourceRequests ==
    {ResourceRequest(Dummy, ps, m, <<>>, f[1], f[2], "present", FALSE) :
        ps \in {NoBlob, Params}, m \in {NoBlob, Meta}, f \in Forms}
    \cup {ResourceRequest(Dummy, Params, NoBlob, <<>>, f[1], f[2], st, FALSE) :
            f \in Forms, st \in {"enabled", "disabled"}}
    \cup {ResourceRequest(Dummy, Params, NoBlob, <<>>, f[1], f[2], "present", TRUE) :
            f \in Forms}
    \cup {ResourceRequest(NoType, NoBlob, NoBlob, <<>>, NoBlob, NoBlob, st, FALSE) :
            st \in {"absent", "enabled", "disabled"}}
    \cup {ResourceRequest(Dummy, Params, NoBlob, <<Monitor>>, NoBlob, NoBlob,
                          "present", FALSE),
          ResourceRequest(Type(<<"Dummy">>), Params, NoBlob, <<>>, NoBlob,
                          NoBlob, "present", FALSE)}

RunResource ==
    /\ Follows("resource")
    /\ \E p \in ResourceRequests :
          \E res \in {resource_main(doc.resources, p)},
             check \in BOOLEAN, env \in Cibadmin :
              Drive("resource", "resources", p, check, env, res)

InitResource ==
    /\ doc = ClusterDoc(<<Primitive("Q")>>, <<>>)
    /\ last = NoRun
    /\ running = NoneRunning

NextResource == RunResource

SpecResource == InitResource /\ [][NextResource]_vars

----------------------------------------------------------------------------
(* Properties of pacemaker_resource, checked under SpecResource.           *)

\* How many primitives named `name` the scope holds.
Count(resources, name) == Len(FindTagId(resources, "primitive", name))

\* The tag of the element that holds the first primitive named `name`:
\* "resources" for a bare one, "clone", "master" or "group" otherwise.
HolderTag(resources, name) ==
    NodeAt(resources,
           ParentPath(FindTagId(resources, "primitive", name)[1])).tag

\* The form a request asks for; master wins over clone.
RequestedHolder(p) ==
    IF p.master.given THEN "master"
    ELSE IF p.clone.given THEN "clone" ELSE "resources"

\* C2: with no primitive N in the scope, a present request for N (force off,
\* check mode off) in bare, clone or master form, with meta and params given
\* or left out, succeeds with changed = true and commits a scope holding
\* exactly one primitive N in the requested form; the identical request
\* repeated reports changed = false and commits nothing.
C2_ResourceCreateIdempotent ==
    ( /\ last.kind = "resource"
      /\ last.req.state = "present"
      /\ ~last.req.force
      /\ ~last.check
      /\ last.req.type = Dummy
      /\ last.req.op = <<>>
      /\ last.fetches = 1
      /\ CibadminWorked )
    => /\ last.found = 0
          => /\ ~last.failed
             /\ last.changed
             /\ last.commits = 1
             /\ Count(doc.resources, last.req.name) = 1
             /\ HolderTag(doc.resources, last.req.name) = RequestedHolder(last.req)
       /\ (last.rep >= 1 /\ last.first.found = 0)
          => /\ ~last.failed
             /\ ~last.changed
             /\ last.commits = 0

\* C7: a present request that turns the bare primitive P into a clone, and a
\* present request that turns the cloned P back into a bare primitive, each
\* commit a scope with exactly one primitive P and no id carried twice.
C7_WrapperTransitions ==
    ( /\ last.kind = "resource"
      /\ PlainPresent
      /\ last.found = 1
      /\ Count(last.before.resources, last.req.name) = 1
      /\ NoDuplicates(IdsOf(last.before.resources))
      /\ \/ /\ RequestedHolder(last.req) = "clone"
            /\ HolderTag(last.before.resources, last.req.name) = "resources"
         \/ /\ RequestedHolder(last.req) = "resources"
            /\ HolderTag(last.before.resources, last.req.name) = "clone" )
    => /\ last.changed
       /\ last.commits = 1
       /\ Count(doc.resources, last.req.name) = 1
       /\ HolderTag(doc.resources, last.req.name) = RequestedHolder(last.req)
       /\ NoDuplicates(IdsOf(doc.resources))

\* P was a clone made by this module (id P-clone) and is bare again.
C7_Witness ==
    /\ last.kind = "resource"
    /\ PlainPresent
    /\ RequestedHolder(last.req) = "resources"
    /\ Count(last.before.resources, "P") = 1
    /\ HolderTag(last.before.resources, "P") = "clone"
    /\ HasElementWithId(last.before.resources, "P-clone")
    /\ last.commits = 1
    /\ Count(doc.resources, "P") = 1
    /\ HolderTag(doc.resources, "P") = "resources"
    /\ ~HasElementWithId(doc.resources, "P-clone")

----------------------------------------------------------------------------
(* pacemaker_resource_group                                                *)

\* One turn of the loop of append_group_node over `resource`, on the element
\* `root` whose last child is the group being built: the first element below
\* root that carries the id is appended to the group; with `remove` it is
\* also taken out of its parent, without it stays where it was as well.
RECURSIVE GroupMembers(_, _, _, _)
GroupMembers(root, resource, i, remove) ==
    IF i > Len(resource) THEN root
    ELSE LET found    == FindId(root, resource[i])
             appended == AppendAt(root, <<Len(root.children)>>,
                                  NodeAt(root, found[1]))
         IN  IF found = <<>> THEN GroupMembers(root, resource, i + 1, remove)
             ELSE IF remove
             THEN GroupMembers(RemoveAt(appended, found[1]), resource, i + 1,
                               remove)
             ELSE GroupMembers(appended, resource, i + 1, remove)

\* `root` with the new group as its last child: the members in the order of
\* the request, then the group's meta_attributes.
append_group_node(root, p, remove) ==
    LET meta_dict == option_str_to_name_dict(p.meta)
        started   == SubElement(root, Element("group", [id |-> p.name], <<>>))
        filled    == GroupMembers(started, p.resource, 1, remove)
    IN  IF ~meta_dict.ok THEN NotBuilt(meta_dict.msg)
        ELSE Built(AppendAt(filled, <<Len(filled.children)>>,
                            append_meta_attribute_node(p.name, meta_dict.keys,
                                                       meta_dict.dict)))

\* The group with the marker target-role=Stopped removed (enabled) or set
\* (disabled), and whether that changed anything; a missing meta_attributes
\* child is created either way.
set_group_status(root, enabled) ==
    LET name == Get(root, "id")
        had  == FirstChild(root, "meta_attributes") # 0
        with == IF had THEN root
                ELSE SubElement(root, append_meta_attribute_node(name, <<>>, <<>>))
        m    == FirstChild(with, "meta_attributes")
        meta == with.children[m]
        t    == TargetRoleIndex(meta)
        marker == Element("nvpair",
                          [id |-> name \o "-meta_attributes-target-role",
                           name |-> "target-role", value |-> "Stopped"],
                          <<>>)
    IN  IF enabled
        THEN IF t # 0 /\ Get(meta.children[t], "value") = "Stopped"
             THEN [changed |-> TRUE,
                   node |-> [with EXCEPT !.children[m].children = RemoveIdx(@, {t})]]
             ELSE [changed |-> FALSE, node |-> with]
        ELSE IF t = 0
             THEN [changed |-> TRUE,
                   node |-> [with EXCEPT !.children[m] = SubElement(@, marker)]]
             ELSE IF Get(meta.children[t], "value") # "Stopped"
             THEN [changed |-> TRUE,
                   node |-> [with EXCEPT
                                !.children[m].children[t].attrib.value = "Stopped"]]
             ELSE [changed |-> FALSE, node |-> with]

\* The group is removed together with everything below it.
group_dissolve_with_members(cib, gp) == RemoveAt(cib, gp)

\* The absent branch: the group's primitives become the last children of the
\* group's parent and the group is removed.
group_dissolve(cib, gp) ==
    LET pp     == ParentPath(gp)
        parent == NodeAt(cib, pp)
        moved  == ChildrenWithTag(NodeAt(cib, gp), "primitive")
    IN  ReplaceAt(cib, pp,
                  [parent EXCEPT
                      !.children = RemoveIdx(@ \o moved, {gp[Len(gp)]})])

\* The members are left in their parents as well.
group_create_keeping_members(cib, p) ==
    LET built == append_group_node(cib, p, FALSE)
    IN  IF ~built.ok THEN TopologyRaised(built.msg)
        ELSE Topology(TRUE, built.node, Live(<<Len(built.node.children)>>))

\* No group of this name: it is built under the scope root, its members
\* taken out of their parents.
group_create(cib, p) ==
    LET built == append_group_node(cib, p, TRUE)
    IN  IF ~built.ok THEN TopologyRaised(built.msg)
        ELSE Topology(TRUE, built.node, Live(<<Len(built.node.children)>>))

\* The group exists at `gp`: a new one is built next to it, its members left
\* in their parents; the old group is removed when force is on or the two
\* differ, the new one otherwise.
group_update(cib, p, gp) ==
    LET pp       == ParentPath(gp)
        built    == append_group_node(NodeAt(cib, pp), p, FALSE)
        new_node == built.node.children[Len(built.node.children)]
        replaced == RemoveAt(built.node, <<gp[Len(gp)]>>)
    IN  IF ~built.ok THEN TopologyRaised(built.msg)
        ELSE IF p.force \/ has_difference("resource_group", NodeAt(cib, gp), new_node)
        THEN Topology(TRUE, ReplaceAt(cib, pp, replaced),
                      Live(Append(pp, Len(replaced.children))))
        ELSE Topology(FALSE, cib, Live(gp))

\* "Start/stop the resource as needed" on the group main() holds.
group_status(t, state) ==
    LET s == set_group_status(NodeAt(t.cib, t.node.path), state = "enabled")
    IN  IF state \in {"enabled", "disabled"}
        THEN [changed |-> t.changed \/ s.changed,
              cib |-> ReplaceAt(t.cib, t.node.path, s.node)]
        ELSE [changed |-> t.changed, cib |-> t.cib]

resource_group_main(cib, p) ==
    LET found == FindTagId(cib, "group", p.name)
        n     == IF found = <<>> THEN 0 ELSE 1
        t     == IF found = <<>> THEN group_create(cib, p)
                 ELSE group_update(cib, p, found[1])
        s     == group_status(t, p.state)
    IN  IF p.state = "absent"
        THEN IF found = <<>> THEN Returned(FALSE, cib, 0)
             ELSE Returned(TRUE, group_dissolve(cib, found[1]), 1)
        ELSE IF t.failed THEN Raised(t.msg, FALSE, n)
        ELSE Returned(s.changed, s.cib, n)

----------------------------------------------------------------------------
(* The playbooks of pacemaker_resource_group runs that are explored: the   *)
(* group G over the primitives X and Y; Z names no resource.               *)

GroupRequest(resource, meta, state, force) ==
    [name |-> "G", resource |-> resource, meta |-> meta, state |-> state,
     force |-> force]

Priority == Blob(<<<<"priority", "1">>>>)

GroupRequests ==
    {GroupRequest(r, m, "present", FALSE) :
        r \in {<<"X", "Y">>, <<"Y", "X">>, <<"X">>, <<"X", "Z">>},
        m \in {NoBlob, Priority}}
    \cup {GroupRequest(<<"X", "Y">>, NoBlob, "present", TRUE),
          GroupRequest(<<>>, NoBlob, "absent", FALSE),
          GroupRequest(<<"X", "Y">>, NoBlob, "enabled", FALSE),
          GroupRequest(<<"X", "Y">>, NoBlob, "disabled", FALSE)}

\* The primitives of the scope, in document order.
Primitives(resources) ==
    LET d == Descendants(resources)
    IN  SelectIdx(d, {k \in DOMAIN d : d[k].tag = "primitive"}, 1)

\* Runs are explored while the scope holds at most this many primitives.
MaxPrimitives == 3

RunGroup ==
    /\ Follows("resource_group")
    /\ Len(Primitives(doc.resources)) <= MaxPrimitives
    /\ \E p \in GroupRequests :
          \E res \in {resource_group_main(doc.resources, p)},
             check \in BOOLEAN, env \in Cibadmin :
              Drive("resource_group", "resources", p, check, env, res)

InitGroup ==
    /\ doc = ClusterDoc(<<Primitive("X"), Primitive("Y")>>, <<>>)
    /\ last = NoRun
    /\ running = NoneRunning

NextGroup == RunGroup

SpecGroup == InitGroup /\ [][NextGroup]_vars

----------------------------------------------------------------------------
(* Properties of pacemaker_resource_group, checked under SpecGroup.        *)

\* The ids of the primitives that are children of the group `name`, in
\* order; <<>> when there is no such group.
Members(resources, name) ==
    LET found == FindTagId(resources, "group", name)
        prims == ChildrenWithTag(NodeAt(resources, found[1]), "primitive")
    IN  IF found = <<>> THEN <<>>
        ELSE [k \in DOMAIN prims |-> Get(prims[k], "id")]

\* Every primitive id of the scope occurs once.
UniquePrimitives(resources) ==
    LET prims == Primitives(resources)
    IN  NoDuplicates([k \in DOMAIN prims |-> Get(prims[k], "id")])

\* C3: with bare primitives X and Y and no group G, a present request for G
\* with members [X, Y] reports changed = true and commits a scope in which G
\* holds X then Y and neither is left outside G; the identical request
\* repeated reports changed = false, commits nothing and leaves G = [X, Y]
\* with each member present once.
C3_GroupCreateIdempotent ==
    ( /\ last.kind = "resource_group"
      /\ PlainPresent
      /\ last.req.resource = <<"X", "Y">> )
    => /\ ( /\ last.found = 0
            /\ Count(last.before.resources, "X") = 1
            /\ Count(last.before.resources, "Y") = 1
            /\ HolderTag(last.before.resources, "X") = "resources"
            /\ HolderTag(last.before.resources, "Y") = "resources" )
          => /\ last.changed
             /\ last.commits = 1
             /\ Members(doc.resources, "G") = <<"X", "Y">>
             /\ Count(doc.resources, "X") = 1
             /\ Count(doc.resources, "Y") = 1
       /\ ( /\ last.rep >= 1
            /\ last.first.found = 0
            /\ Members(last.before.resources, "G") = <<"X", "Y">>
            /\ Count(last.before.resources, "X") = 1
            /\ Count(last.before.resources, "Y") = 1 )
          => /\ ~last.changed
             /\ last.commits = 0
             /\ doc = last.before

\* The repeat of the request that created G = [X, Y].
C3_Witness ==
    /\ last.kind = "resource_group"
    /\ PlainPresent
    /\ last.req.resource = <<"X", "Y">>
    /\ last.rep >= 1
    /\ last.first.found = 0
    /\ last.first.changed
    /\ last.first.commits = 1
    /\ ~last.changed
    /\ Members(doc.resources, "G") = <<"X", "Y">>
    /\ Count(doc.resources, "X") = 1
    /\ Count(doc.resources, "Y") = 1

\* C6: a successful resource-group present request on a scope in which every
\* primitive id occurs once leaves a persisted scope in which every
\* primitive id occurs at most once.
C6_NoPrimitiveDuplicated ==
    ( /\ last.kind = "resource_group"
      /\ last.req.state = "present"
      /\ ~last.failed
      /\ UniquePrimitives(last.before.resources) )
    => UniquePrimitives(doc.resources)

----------------------------------------------------------------------------
(* pacemaker_property and pacemaker_resource_default                       *)

\* The keys of the dictionary in the order the loop over params_dict.items()
\* takes them: each key once, by first occurrence in the blob.
DictKeys(opts) == TokenKeys(opts.tokens, Len(opts.tokens))

\* parent_node.findall(".//nvpair"): the paths of the nvpairs below `node`.
NvPairPaths(node) ==
    LET ps == Paths(node)
    IN  SelectIdx(ps, {k \in DOMAIN ps : NodeAt(node, ps[k]).tag = "nvpair"}, 1)

\* nodes_map.get(key): the path of the last nvpair with this name, <<>> when
\* there is none.
NodesMapGet(node, paths, key) ==
    LET ix == {k \in DOMAIN paths : Get(NodeAt(node, paths[k]), "name") = key}
    IN  IF ix = {} THEN <<>> ELSE paths[CHOOSE k \in ix : \A j \in ix : j <= k]

\* node.get(id) in params_dict: `id` is the builtin, no attribute has that
\* key, and None is not a key of params_dict.
AbsentSelects(node, params_dict) == FALSE

\* The absent loop: the selected nvpairs, children of parent_node, are
\* removed from it.
PropertyRemoved(parent, paths, params_dict) ==
    [parent EXCEPT
        !.children = RemoveIdx(@, {paths[k][1] : k \in
            {j \in DOMAIN paths :
                /\ Len(paths[j]) = 1
                /\ AbsentSelects(NodeAt(parent, paths[j]), params_dict)}})]

NameNotDefined == "global name 'name' is not defined"

\* The present loop of pacemaker_property over keys[i..]: a key without an
\* nvpair raises (append_nvpair_node is called with the undefined `name`), a
\* key whose value differs is set.
RECURSIVE property_set(_, _, _, _, _)
property_set(parent, keys, dict, i, changed) ==
    LET paths == NvPairPaths(parent)
        at    == NodesMapGet(parent, paths, keys[i])
    IN  IF i > Len(keys) THEN [failed |-> FALSE, changed |-> changed, node |-> parent]
        ELSE IF at = <<>>
        THEN [failed |-> TRUE, changed |-> changed, node |-> parent]
        ELSE IF Get(NodeAt(parent, at), "value") # dict[keys[i]]
        THEN property_set(
                 ReplaceAt(parent, at,
                           [NodeAt(parent, at) EXCEPT !.attrib.value = dict[keys[i]]]),
                 keys, dict, i + 1, TRUE)
        ELSE property_set(parent, keys, dict, i + 1, changed)

property_main(crm_config, p) ==
    LET sets        == LET ps == Paths(crm_config)
                       IN  SelectIdx(ps, {k \in DOMAIN ps :
                               NodeAt(crm_config, ps[k]).tag = "cluster_property_set"}, 1)
        pp          == sets[1]
        parent_node == NodeAt(crm_config, pp)
        nodes       == NvPairPaths(parent_node)
        params_dict == option_str_to_dict(p.params)
        keys        == DictKeys(p.params)
        set         == property_set(parent_node, keys, params_dict.dict, 1, FALSE)
    IN  IF sets = <<>>
        THEN Raised("'NoneType' object has no attribute 'findall'", FALSE, 0)
        ELSE IF ~params_dict.ok THEN Raised(params_dict.msg, FALSE, Len(nodes))
        ELSE IF p.state = "absent"
        THEN IF Len(nodes) > 0
             THEN Returned(TRUE,
                           ReplaceAt(crm_config, pp,
                                     PropertyRemoved(parent_node, nodes,
                                                     params_dict.dict)),
                           Len(nodes))
             ELSE Returned(FALSE, crm_config, 0)
        ELSE IF Len(nodes) = 0
        THEN IF keys # <<>> THEN Raised(NameNotDefined, FALSE, 0)
             ELSE Returned(TRUE, crm_config, 0)
        ELSE IF set.failed THEN Raised(NameNotDefined, set.changed, Len(nodes))
        ELSE Returned(set.changed, ReplaceAt(crm_config, pp, set.node), Len(nodes))

append_meta_attributes_nodes ==
    Element("meta_attributes", [id |-> "rsc_defaults-options"], <<>>)

append_rsc_defaults_node ==
    Element("rsc_defaults", NoAttrib, <<append_meta_attributes_nodes>>)

\* The present loop of pacemaker_resource_default over keys[i..]: a key
\* without an nvpair gets one, a key whose value differs is set.
RECURSIVE resource_default_set(_, _, _, _, _)
resource_default_set(parent, keys, dict, i, changed) ==
    LET paths == NvPairPaths(parent)
        own   == SelectIdx(paths, {k \in DOMAIN paths : Len(paths[k]) = 1}, 1)
        at    == NodesMapGet(parent, own, keys[i])
    IN  IF i > Len(keys) THEN [changed |-> changed, node |-> parent]
        ELSE IF at = <<>>
        THEN resource_default_set(
                 SubElement(parent,
                            append_nvpair_node("rsc_defaults-options", keys[i],
                                               dict[keys[i]])),
                 keys, dict, i + 1, TRUE)
        ELSE IF Get(NodeAt(parent, at), "value") # dict[keys[i]]
        THEN resource_default_set(
                 ReplaceAt(parent, at,
                           [NodeAt(parent, at) EXCEPT !.attrib.value = dict[keys[i]]]),
                 keys, dict, i + 1, TRUE)
        ELSE resource_default_set(parent, keys, dict, i + 1, changed)

resource_default_main(configuration, p) ==
    LET with_defaults == IF FirstChild(configuration, "rsc_defaults") = 0
                         THEN SubElement(configuration, append_rsc_defaults_node)
                         ELSE configuration
        rp            == <<FirstChild(with_defaults, "rsc_defaults")>>
        with_meta     == IF FirstChild(NodeAt(with_defaults, rp), "meta_attributes") = 0
                         THEN AppendAt(with_defaults, rp, append_meta_attributes_nodes)
                         ELSE with_defaults
        pp            == Append(rp, FirstChild(NodeAt(with_meta, rp), "meta_attributes"))
        parent_node   == NodeAt(with_meta, pp)
        all           == NvPairPaths(parent_node)
        nodes         == SelectIdx(all, {k \in DOMAIN all : Len(all[k]) = 1}, 1)
        params_dict   == option_str_to_dict(p.params)
        set           == resource_default_set(parent_node, DictKeys(p.params),
                                              params_dict.dict, 1, FALSE)
    IN  IF ~params_dict.ok THEN Raised(params_dict.msg, FALSE, Len(nodes))
        ELSE IF p.state = "absent"
        THEN IF Len(nodes) > 0
             THEN Returned(TRUE,
                           ReplaceAt(with_meta, pp,
                                     PropertyRemoved(parent_node, nodes,
                                                     params_dict.dict)),
                           Len(nodes))
             ELSE Returned(FALSE, with_meta, 0)
        ELSE Returned(set.changed, ReplaceAt(with_meta, pp, set.node), Len(nodes))

----------------------------------------------------------------------------
(* The playbooks of pacemaker_property and pacemaker_resource_default runs *)
(* that are explored.  The configuration scope is modelled by its          *)
(* rsc_defaults part; the other sections it holds are the scopes of their  *)
(* own.                                                                    *)

OptionRequest(params, state) == [params |-> params, state |-> state, force |-> FALSE]

OptionBlobs ==
    {Blob(<<<<"k", "1">>>>), Blob(<<<<"k", "2">>>>),
     Blob(<<<<"k", "1">>, <<"j", "1">>>>), Blob(<<<<"j", "1">>>>),
     Blob(<<<<"k">>>>), Blob(<<>>)}

OptionRequests ==
    {OptionRequest(b, s) : b \in OptionBlobs, s \in {"present", "absent"}}

PropertySet(pairs) ==
    Element("cluster_property_set", [id |-> "cib-bootstrap-options"],
            [i \in DOMAIN pairs |->
                append_nvpair_node("cib-bootstrap-options", pairs[i][1],
                                   pairs[i][2])])

OptionDoc(crm_config, configuration) ==
    [ClusterDoc(<<>>, <<>>) EXCEPT
        !.crm_config = Element("crm_config", NoAttrib, crm_config),
        !.configuration = Element("configuration", NoAttrib, configuration)]

RunProperty ==
    /\ Follows("property")
    /\ \E p \in OptionRequests :
          \E res \in {property_main(doc.crm_config, p)},
             check \in BOOLEAN, env \in Cibadmin :
              Drive("property", "crm_config", p, check, env, res)

RunResourceDefault ==
    /\ Follows("resource_default")
    /\ \E p \in OptionRequests :
          \E res \in {resource_default_main(doc.configuration, p)},
             check \in BOOLEAN, env \in Cibadmin :
              Drive("resource_default", "configuration", p, check, env, res)

InitOptions ==
    /\ doc \in {OptionDoc(<<>>, <<>>),
                OptionDoc(<<PropertySet(<<>>)>>, <<>>),
                OptionDoc(<<PropertySet(<<<<"k", "1">>>>)>>, <<>>),
                OptionDoc(<<PropertySet(<<<<"k", "1">>, <<"j", "2">>>>)>>, <<>>)}
    /\ last = NoRun
    /\ running = NoneRunning

NextOptions == RunProperty \/ RunResourceDefault

SpecOptions == InitOptions /\ [][NextOptions]_vars

----------------------------------------------------------------------------
(* Properties of pacemaker_property and pacemaker_resource_default,        *)
(* checked under SpecOptions.                                              *)

\* The scope a run of `kind` replaces.
OptionScope(d, kind) == IF kind = "property" THEN d.crm_config ELSE d.configuration

\* The scope holds an nvpair named `key`.
HoldsOption(scope, key) ==
    \E i \in DOMAIN Descendants(scope) :
        /\ Descendants(scope)[i].tag = "nvpair"
        /\ Get(Descendants(scope)[i], "name") = key

\* C10: after an absent request for cluster properties or resource defaults
\* whose params name key k (check mode off), the scope holds no nvpair named
\* k; repeating the request, or issuing it when none of the named keys is
\* present, reports changed = false and issues no commit.
C10_OptionAbsent ==
    ( /\ last.kind \in {"property", "resource_default"}
      /\ last.req.state = "absent"
      /\ DictKeys(last.req.params) # <<>>
      /\ ~last.check
      /\ ~last.failed )
    => LET keys == Range(DictKeys(last.req.params))
       IN  /\ \A k \in keys : ~HoldsOption(OptionScope(doc, last.kind), k)
           /\ ( \/ last.rep >= 1
                \/ \A k \in keys :
                      ~HoldsOption(OptionScope(last.before, last.kind), k) )
              => /\ ~last.changed
                 /\ last.commits = 0


\* The nvpair elements of the scope a run of `kind` replaces.
OptionPairs(d, kind) ==
    LET all == Descendants(OptionScope(d, kind))
    IN  {all[i] : i \in {j \in DOMAIN all : all[j].tag = "nvpair"}}

\* The id of the set the nvpairs of `kind` live in.
OptionSetId(kind) ==
    IF kind = "property" THEN "cib-bootstrap-options" ELSE "rsc_defaults-options"

\* C11: a present request for cluster properties or resource defaults
\* (check mode off, params well formed, the property set in place) succeeds;
\* afterwards every key of params has an nvpair with its value, a key that
\* had none has one with id '<set-id>-<key>', changed = true is reported
\* exactly when a pair was added or updated, and the nvpairs of other keys
\* are as they were.
C11_OptionPresent ==
    ( /\ last.kind \in {"property", "resource_default"}
      /\ last.req.state = "present"
      /\ ~last.check
      /\ last.fetches = 1
      /\ CibadminWorked
      /\ option_str_to_dict(last.req.params).ok
      /\ DictKeys(last.req.params) # <<>>
      /\ last.kind = "property"
            => FirstChild(last.before.crm_config, "cluster_property_set") # 0 )
    => LET dict == option_str_to_dict(last.req.params).dict
           keys == Range(DictKeys(last.req.params))
           was  == OptionPairs(last.before, last.kind)
           now  == OptionPairs(doc, last.kind)
       IN  /\ ~last.failed
           /\ \A k \in keys :
                 \E e \in now :
                    /\ Get(e, "name") = k
                    /\ Get(e, "value") = dict[k]
                    /\ (\A w \in was : Get(w, "name") # k)
                          => Get(e, "id") = Dash(OptionSetId(last.kind), k)
           /\ last.changed
                 <=> \E k \in keys :
                        \A w \in was : Get(w, "name") = k => Get(w, "value") # dict[k]
           /\ \A w \in was : Get(w, "name") \notin keys => w \in now


----------------------------------------------------------------------------
(* Further properties of the constraint modules, under SpecConstraints.    *)

\* The current nodes main() of `kind` looks up for the request p in the
\* constraints of d, as child indexes.
ConstraintNodes(kind, d, p) ==
    LET x == IF Len(p.resource) # 0 THEN p.resource[1] ELSE p.master
        y == IF Len(p.resource) # 0 THEN p.resource[2] ELSE p.slave
    IN  IF kind = "colocation"
        THEN Range(FindColocations(d.constraints, x, y))
             \cup Range(FindColocations(d.constraints, y, x))
        ELSE IF kind = "location"
        THEN Range(FindLocations(d.constraints, p.resource, p.node))
        ELSE Range(FindOrders(d.constraints, p.resource1, p.resource1_action,
                              p.resource2, p.resource2_action))

\* What main() of `kind` computes for the request p on d.
ConstraintMain(kind, d, p) ==
    IF kind = "colocation" THEN colocation_main(d, p)
    ELSE IF kind = "location" THEN location_main(d, p)
    ELSE order_main(d, p)

\* The scope d holds an object the module takes for the one p describes: the
\* same request with force off finds it and leaves it alone.
HoldsEquivalent(kind, d, p) ==
    LET r == ConstraintMain(kind, d, [p EXCEPT !.force = FALSE])
    IN  ~r.failed /\ ~r.changed /\ r.found > 0

\* C12 (colocation, location, order): with an equivalent object in the
\* scope, a present request with force on reports changed = true and commits
\* a scope in which the found nodes are replaced by exactly one node, which
\* carries the id of a node it replaces.
C12_ForceReplaces ==
    ( /\ last.kind \in {"colocation", "location", "order"}
      /\ last.fetches = 1
      /\ CibadminWorked
      /\ last.req.state = "present"
      /\ last.req.force
      /\ ~last.check
      /\ HoldsEquivalent(last.kind, last.before, last.req) )
    => LET was == ConstraintNodes(last.kind, last.before, last.req)
           now == ConstraintNodes(last.kind, doc, last.req)
       IN  /\ ~last.failed
           /\ last.changed
           /\ last.commits = 1
           /\ Cardinality(now) = 1
           /\ \A i \in now :
                 \E j \in was :
                    Get(doc.constraints.children[i], "id")
                        = Get(last.before.constraints.children[j], "id")


----------------------------------------------------------------------------
(* Further properties of pacemaker_resource_group, under SpecGroup.        *)

\* C13: when the scope holds group G with members [X, Y], each of them once,
\* a successful present request for G with members [Y, X] (force off, check
\* off) reports changed = true, commits once and leaves a scope in which G's
\* primitive children are Y then X, each present exactly once.
C13_GroupOrderSensitive ==
    ( /\ last.kind = "resource_group"
      /\ PlainPresent
      /\ last.req.resource = <<"Y", "X">>
      /\ Members(last.before.resources, "G") = <<"X", "Y">>
      /\ Count(last.before.resources, "X") = 1
      /\ Count(last.before.resources, "Y") = 1 )
    => /\ last.changed
       /\ last.commits = 1
       /\ Members(doc.resources, "G") = <<"Y", "X">>
       /\ Count(doc.resources, "X") = 1
       /\ Count(doc.resources, "Y") = 1

\* G = [X, Y] has been re-requested as [Y, X] and now holds Y then X.
C13_Witness ==
    /\ last.kind = "resource_group"
    /\ PlainPresent
    /\ last.req.resource = <<"Y", "X">>
    /\ Members(last.before.resources, "G") = <<"X", "Y">>
    /\ Count(last.before.resources, "X") = 1
    /\ Count(last.before.resources, "Y") = 1
    /\ last.changed
    /\ Members(doc.resources, "G") = <<"Y", "X">>


\* The name/value pairs of the nvpairs below the meta_attributes child of the
\* element at `path`; {} when it has no such child.
MetaPairs(resources, path) ==
    LET node == NodeAt(resources, path)
        m    == FirstChild(node, "meta_attributes")
    IN  IF m = 0 THEN {}
        ELSE {<<Get(n, "name"), Get(n, "value")>> : n \in Range(node.children[m].children)}

\* The meta attributes of the group `name`; {} when there is no such group.
GroupMeta(resources, name) ==
    LET found == FindTagId(resources, "group", name)
    IN  IF found = <<>> THEN {} ELSE MetaPairs(resources, found[1])

\* C14 (group): when the scope holds group G with the requested members,
\* each once, and no meta attribute, a successful present request (force
\* off, check off) with the same members and the one meta attribute
\* priority=1 reports changed = true, commits once and leaves G carrying the
\* meta attribute priority=1.
C14_MetaAttributeSensitive ==
    ( /\ last.kind = "resource_group"
      /\ PlainPresent
      /\ last.req.meta = Priority
      /\ last.found = 1
      /\ Members(last.before.resources, "G") = last.req.resource
      /\ UniquePrimitives(last.before.resources)
      /\ GroupMeta(last.before.resources, "G") = {} )
    => /\ last.changed
       /\ last.commits = 1
       /\ <<"priority", "1">> \in GroupMeta(doc.resources, "G")


----------------------------------------------------------------------------
(* pacemaker_order_set                                                     *)

\* resource_sets as the playbook gives it: not at all, a list of names, or a
\* list of lists of names.
NoSets == [given |-> FALSE, flat |-> FALSE, sets |-> <<>>]

FlatSet(names) == [given |-> TRUE, flat |-> TRUE, sets |-> <<names>>]

NestedSets(sets) == [given |-> TRUE, flat |-> FALSE, sets |-> sets]

\* `resource_sets[0]` of None, and of an empty list
NotSubscriptable == "'NoneType' object has no attribute '__getitem__'"

NoFirstSet == "list index out of range"

\* main() passes `root` to append_rsc_order_node; no such name is bound in
\* main() or in the module.
RootNotDefined == "global name 'root' is not defined"

\* The names of the sets, in the order the two loops of main() visit them.
RECURSIVE SetNames(_, _)
SetNames(sets, i) ==
    IF i > Len(sets) THEN <<>> ELSE sets[i] \o SetNames(sets, i + 1)

\* constraints.find('.//rsc_order[@id="%s"]')
FindOrderSet(constraints, name) == FindTagId(constraints, "rsc_order", name)

order_set_main(cib, p) ==
    LET resources   == cib.resources
        constraints == cib.constraints
        node    == FindOrderSet(constraints, p.name)
        found   == IF node = <<>> THEN 0 ELSE 1
        names   == SetNames(p.resource_sets.sets, 1)
        missing == {k \in DOMAIN names : names[k] \notin ResourceNames(resources)}
    IN  IF ~p.resource_sets.given THEN Raised(NotSubscriptable, FALSE, found)
        ELSE IF p.resource_sets.sets = <<>> THEN Raised(NoFirstSet, FALSE, found)
        ELSE IF missing # {}
        THEN Raised("no such resource: " \o names[Min(missing)], FALSE, found)
        ELSE IF p.state = "absent"
        THEN IF found = 0 THEN Returned(FALSE, constraints, 0)
             ELSE IF Len(node[1]) # 1 THEN Raised(RemoveError, FALSE, 1)
             ELSE Returned(TRUE, RemoveAt(constraints, node[1]), 1)
        ELSE \* append_rsc_order_node(root, **module.params), on either branch
             Raised(RootNotDefined, FALSE, found)

\* The playbooks of pacemaker_order_set runs that are explored: the
\* constraint S over the resources A and B; Z names no resource.
OrderSetRequest(resource_sets, params, mode) ==
    [name |-> "S", resource_sets |-> resource_sets, params |-> params,
     set_options |-> NoBlob, state |-> mode.state, force |-> mode.force]

OrderSetRequests ==
    {OrderSetRequest(s, NoBlob, m) :
        s \in {FlatSet(<<"A", "B">>),
               NestedSets(<<<<"A", "B">>, <<"B", "A">>>>)},
        m \in Modes}
    \cup {OrderSetRequest(FlatSet(<<"A", "B">>),
                          Blob(<<<<"kind", "Optional">>>>), Present),
          OrderSetRequest(FlatSet(<<"A", "Z">>), NoBlob, Present),
          OrderSetRequest(NoSets, NoBlob, Absent),
          OrderSetRequest(NestedSets(<<>>), NoBlob, Present)}

RunOrderSet ==
    /\ Follows("order_set")
    /\ \E p \in OrderSetRequests :
          \E res \in {order_set_main(doc, p)}, check \in BOOLEAN, env \in Cibadmin :
              Drive("order_set", "constraints", p, check, env, res)

\* The constraint S as another tool has written it: one set, A then B.
StoredOrderSet ==
    Element("rsc_order", [id |-> "S"],
            <<Element("resource_set", [id |-> "S-set"],
                      <<Element("resource_ref", [id |-> "A"], <<>>),
                        Element("resource_ref", [id |-> "B"], <<>>)>>)>>)

InitOrderSet ==
    /\ doc \in {ClusterDoc(<<Primitive("A"), Primitive("B")>>, c) :
                    c \in {<<>>, <<StoredOrderSet>>,
                           ForeignConstraints \o <<StoredOrderSet>>}}
    /\ last = NoRun
    /\ running = NoneRunning

NextOrderSet == RunOrderSet

SpecOrderSet == InitOrderSet /\ [][NextOrderSet]_vars

----------------------------------------------------------------------------
(* Every module, each run against the cluster prepared for its playbook.   *)

\* The resources scope holds an element with this id.
ClusterHas(name) == HasElementWithId(doc.resources, name)

\* One cluster per family of modules: resources A and B for the constraint
\* modules, Q for pacemaker_resource, X and Y for pacemaker_resource_group,
\* none and the property k=1 for the option modules.
InitModules ==
    /\ doc \in {ClusterDoc(<<Primitive("A"), Primitive("B")>>, <<>>),
                ClusterDoc(<<Primitive("Q")>>, <<>>),
                ClusterDoc(<<Primitive("X"), Primitive("Y")>>, <<>>),
                OptionDoc(<<PropertySet(<<<<"k", "1">>>>)>>, <<>>)}
    /\ last = NoRun
    /\ running = NoneRunning

NextModules ==
    \/ ClusterHas("A") /\ NextConstraints
    \/ ClusterHas("A") /\ NextOrderSet
    \/ ClusterHas("Q") /\ NextResource
    \/ ClusterHas("X") /\ NextGroup
    \/ doc.resources.children = <<>> /\ NextOptions

SpecModules == InitModules /\ [][NextModules]_vars

\* C15: a run with check mode on issues no commit and leaves the persisted
\* document as it was; and when it is followed by the same request with
\* check mode off, on the scope it left alone, and cibadmin fails in neither
\* run, the second run reports the same changed value and the same
\* success/failure outcome as the check-mode run.
C15_CheckModePure ==
    [][ /\ last'.check => /\ last'.commits = 0
                          /\ doc' = doc
        /\ ( /\ last.kind # "none"
             /\ last.check
             /\ last.msg # CommandFailed
             /\ last'.kind = last.kind
             /\ last'.req = last.req
             /\ ~last'.check
             /\ last'.msg # CommandFailed )
           => /\ last'.changed = last.changed
              /\ last'.failed = last.failed
              /\ last'.msg = last.msg ]_vars

\* A check-mode run that reported a change and left the document alone.
C15_Witness ==
    /\ last.kind # "none"
    /\ last.check
    /\ ~last.failed
    /\ last.changed
    /\ last.commits = 0
    /\ doc = last.before


----------------------------------------------------------------------------
(* Validation of the names a constraint request gives, under               *)
(* SpecConstraints.                                                        *)

\* The resources a request of this kind names.
NamedResources(kind, p) ==
    IF kind = "colocation"
    THEN IF Len(p.resource) = 2 THEN {p.resource[1], p.resource[2]}
         ELSE {p.master, p.slave}
    ELSE IF kind = "location" THEN {p.resource}
    ELSE {p.resource1, p.resource2}

\* The messages that name something the request refers to and the document
\* `d` does not hold.
MissingNames(kind, d, p) ==
    {"no such resource: " \o n :
        n \in {n \in NamedResources(kind, p) : ~HasElementWithId(d.resources, n)}}
    \cup IF kind = "location" /\ ~HasHost(d.nodes, p.node)
         THEN {"no such host: " \o p.node} ELSE {}

\* C16: a present request for a colocation, location or order constraint
\* that names a resource or (location) a host the fetched document does not
\* hold ends in a failure report whose message is 'no such resource: <name>'
\* or 'no such host: <name>' for such a name; no commit is issued and the
\* persisted document equals the one before the run.
C16_MissingNameRejected ==
    ( /\ last.kind \in {"colocation", "location", "order"}
      /\ last.req.state = "present"
      /\ last.fetches = 1
      /\ CibadminWorked
      /\ MissingNames(last.kind, last.before, last.req) # {} )
    => /\ last.failed
       /\ last.msg \in MissingNames(last.kind, last.before, last.req)
       /\ last.commits = 0
       /\ doc = last.before

\* A location request for the host n9, which the cluster does not have, has
\* been turned down.
C16_Witness ==
    /\ last.kind = "location"
    /\ last.req.state = "present"
    /\ last.req.node = "n9"
    /\ last.failed
    /\ last.msg = "no such host: n9"
    /\ last.commits = 0
    /\ doc = last.before


\* C17: a present resource-group request whose member list names a resource
\* the resources scope does not hold ends in a failure report and issues no
\* commit, so no group lacking the missing member is committed.
C17_MissingMemberRejected ==
    ( /\ last.kind = "resource_group"
      /\ last.req.state = "present"
      /\ last.fetches = 1
      /\ CibadminWorked
      /\ \E k \in DOMAIN last.req.resource :
            ~HasElementWithId(last.before.resources, last.req.resource[k]) )
    => /\ last.failed
       /\ last.commits = 0
       /\ doc = last.before


----------------------------------------------------------------------------
(* Further properties of pacemaker_resource, under SpecResource.           *)

\* The element at `path` has a meta_attributes child holding the nvpair
\* target-role = Stopped.
MarkedStopped(resources, path) ==
    <<"target-role", "Stopped">> \in MetaPairs(resources, path)

\* C18 (resource): after a successful disabled request for P (check mode
\* off) the primitive P of the persisted scope has a meta_attributes child
\* holding target-role = Stopped, and after a successful enabled request it
\* holds no such nvpair, whether the request also created P, moved it
\* between bare, clone and master form, or left its form alone.
C18_TargetRoleFollowsState ==
    ( /\ last.kind = "resource"
      /\ ~last.failed
      /\ ~last.check
      /\ last.req.state \in {"enabled", "disabled"} )
    => LET found == FindTagId(doc.resources, "primitive", "P")
       IN  /\ found # <<>>
           /\ \A k \in DOMAIN found :
                 MarkedStopped(doc.resources, found[k])
                     <=> last.req.state = "disabled"


\* C19: a resource request that gives only the name and state = enabled or
\* state = disabled (no type, params, meta, op, clone or master), for a P
\* that exists once and bare, succeeds (check mode off, cibadmin working),
\* and the persisted scope differs from the one before at most in P's
\* marker: it is the scope before, or the scope before with the marker
\* target-role = Stopped of P removed (enabled) or set (disabled); P holds
\* the marker afterwards exactly when the request was disabled.
C19_StatusByNameOnly ==
    ( /\ last.kind = "resource"
      /\ last.req.state \in {"enabled", "disabled"}
      /\ last.req.type = NoType
      /\ last.req.params = NoBlob
      /\ last.req.meta = NoBlob
      /\ last.req.op = <<>>
      /\ last.req.clone = NoBlob
      /\ last.req.master = NoBlob
      /\ ~last.check
      /\ last.fetches = 1
      /\ CibadminWorked
      /\ Count(last.before.resources, "P") = 1
      /\ HolderTag(last.before.resources, "P") = "resources" )
    => LET path == FindTagId(last.before.resources, "primitive", "P")[1]
           set  == set_resource_status(NodeAt(last.before.resources, path),
                                       last.req.state = "enabled")
       IN  /\ ~last.failed
           /\ doc.resources \in {last.before.resources,
                                 ReplaceAt(last.before.resources, path, set)}
           /\ MarkedStopped(doc.resources, path)
                  <=> last.req.state = "disabled"


----------------------------------------------------------------------------
(* Removal of a group, under SpecGroup.                                    *)

\* The ids of the primitive children of the element at `path`, in order.
PrimitiveChildren(resources, path) ==
    LET prims == ChildrenWithTag(NodeAt(resources, path), "primitive")
    IN  [k \in DOMAIN prims |-> Get(prims[k], "id")]

\* The entries of `ids` that are in the set `keep`, in order.
Among(ids, keep) ==
    SelectIdx(ids, {k \in DOMAIN ids : ids[k] \in keep}, 1)

\* C20: an absent request for a group G that exists, in a scope where every
\* primitive id occurs once (check mode off, cibadmin working), reports
\* changed = true and commits a scope without G in which the former members
\* of G are children of G's former parent, each once in the scope and in
\* their former order; an absent request for a group that does not exist
\* reports changed = false, commits nothing and leaves the scope as it was.
C20_GroupRemovalKeepsMembers ==
    ( /\ last.kind = "resource_group"
      /\ last.req.state = "absent"
      /\ ~last.check
      /\ last.fetches = 1
      /\ CibadminWorked )
    => LET found   == FindTagId(last.before.resources, "group", "G")
           members == Members(last.before.resources, "G")
       IN  /\ ( found # <<>> /\ UniquePrimitives(last.before.resources) )
              => /\ ~last.failed
                 /\ last.changed
                 /\ last.commits = 1
                 /\ FindTagId(doc.resources, "group", "G") = <<>>
                 /\ Among(PrimitiveChildren(doc.resources, ParentPath(found[1])),
                          Range(members)) = members
                 /\ UniquePrimitives(doc.resources)
           /\ found = <<>>
              => /\ ~last.failed
                 /\ ~last.changed
                 /\ last.commits = 0
                 /\ doc = last.before

\* The group G = [X, Y] or [Y, X] has been removed and both primitives are
\* children of the scope root.
C20_Witness ==
    /\ last.kind = "resource_group"
    /\ last.req.state = "absent"
    /\ ~last.check
    /\ last.changed
    /\ last.commits = 1
    /\ UniquePrimitives(last.before.resources)
    /\ Len(Members(last.before.resources, "G")) = 2
    /\ FindTagId(doc.resources, "group", "G") = <<>>
    /\ Range(PrimitiveChildren(doc.resources, <<>>)) = {"X", "Y"}


----------------------------------------------------------------------------
(* Properties of pacemaker_order_set, checked under SpecOrderSet.          *)

\* C21: a present order-set request (check mode off, cibadmin working) for
\* a name no rsc_order of the constraints scope carries, whose referenced
\* resources all exist, succeeds with changed = true and commits a scope
\* holding an rsc_order with id = name whose resource_set children are, in
\* the order of resource_sets, one per set, each holding the resource_ref
\* children of its set in the given order.
C21_OrderSetCreated ==
    ( /\ last.kind = "order_set"
      /\ last.req.state = "present"
      /\ ~last.check
      /\ last.fetches = 1
      /\ CibadminWorked
      /\ last.req.resource_sets.given
      /\ last.req.resource_sets.sets # <<>>
      /\ FindOrderSet(last.before.constraints, last.req.name) = <<>>
      /\ Range(SetNames(last.req.resource_sets.sets, 1))
            \subseteq ResourceNames(last.before.resources) )
    => /\ ~last.failed
       /\ last.changed
       /\ last.commits = 1
       /\ LET node == FindOrderSet(doc.constraints, last.req.name)
              sets == ChildrenWithTag(NodeAt(doc.constraints, node[1]),
                                      "resource_set")
          IN  /\ node # <<>>
              /\ [k \in DOMAIN sets |->
                    [j \in DOMAIN ChildrenWithTag(sets[k], "resource_ref") |->
                        Get(ChildrenWithTag(sets[k], "resource_ref")[j], "id")]]
                 = last.req.resource_sets.sets


----------------------------------------------------------------------------
(* The cibadmin calls of one run, checked under SpecModules.               *)

\* The parameters of a module, which its result dictionary echoes.
Parameters(kind) ==
    IF kind = "colocation"
    THEN {"master", "slave", "resource", "score", "option", "state", "force"}
    ELSE IF kind = "location"
    THEN {"resource", "node", "score", "state", "force"}
    ELSE IF kind = "order"
    THEN {"resource1", "resource1_action", "resource2", "resource2_action",
          "params", "state", "force"}
    ELSE IF kind = "order_set"
    THEN {"name", "resource_sets", "params", "set_options", "state", "force"}
    ELSE IF kind = "resource"
    THEN {"name", "type", "params", "meta", "op", "clone", "master", "state",
          "force"}
    ELSE IF kind = "resource_group"
    THEN {"name", "resource", "meta", "state", "force"}
    ELSE {"params", "state"}

\* The calls of the latest run that exited non-zero.
FailedCalls == {i \in DOMAIN last.exits : last.exits[i] # 0}

\* C22: in every module, a run in which the fetch or the commit exits
\* non-zero ends in a failure report; the failed call is the last call of
\* the run (it is not retried and no commit follows it), it is the only
\* failed one, the persisted document is the one before the run, and the
\* report carries the module's parameters and a changed value.
C22_FailureReported ==
    ( last.kind # "none" /\ FailedCalls # {} )
    => /\ last.failed
       /\ FailedCalls = {Len(last.exits)}
       /\ Len(last.exits) = last.fetches + last.commits
       /\ last.fetches = 1
       /\ last.commits <= 1
       /\ doc = last.before
       /\ Parameters(last.kind) \subseteq DOMAIN last.req
       /\ last.changed \in BOOLEAN

\* A run whose fetch worked and whose commit exited non-zero has ended in a
\* failure report.
C22_Witness ==
    /\ last.kind # "none"
    /\ last.exits = <<0, 1>>
    /\ last.failed
    /\ last.msg = CommandFailed
    /\ doc = last.before

----------------------------------------------------------------------------
(* Two runs under way at once.  A run is two steps here: its cibadmin      *)
(* --query, and everything main() does after it, up to the report.  The    *)
(* other run may take its steps in between.                                *)

\* The scope main() edits and hands to its set function.
OwnScope(kind) ==
    IF kind \in {"resource", "resource_group"} THEN "resources"
    ELSE IF kind = "property" THEN "crm_config"
    ELSE IF kind = "resource_default" THEN "configuration"
    ELSE "constraints"

\* The sections of the document that `cibadmin --replace --scope` writes for
\* the module: the configuration section is the parent of all the others.
CommitFrame(kind) ==
    IF kind = "resource_default"
    THEN {"resources", "constraints", "nodes", "crm_config", "configuration"}
    ELSE {OwnScope(kind)}

\* A replace that is turned down when the scope has changed since the fetch.
ReplacedIfFresh(d, kind, cib, tree) ==
    IF d[OwnScope(kind)] # cib[OwnScope(kind)] THEN d
    ELSE [f \in DOMAIN d |->
            IF f = OwnScope(kind) THEN tree
            ELSE IF f \in CommitFrame(kind) THEN cib[f] ELSE d[f]]

\* The document `d` after the replace: `cib` is what the run fetched, `tree`
\* its own scope as main() has edited it.
Replaced(d, kind, cib, tree) ==
    [f \in DOMAIN d |->
        IF f = OwnScope(kind) THEN tree
        ELSE IF f \in CommitFrame(kind) THEN cib[f] ELSE d[f]]

\* main() of the module, on the fetched document.
ModuleMain(kind, cib, p) ==
    IF kind = "resource" THEN resource_main(cib.resources, p)
    ELSE IF kind = "location" THEN location_main(cib, p)
    ELSE IF kind = "property" THEN property_main(cib.crm_config, p)
    ELSE resource_default_main(cib.configuration, p)

\* The playbooks of the two runs: each creates or sets one thing.
InterleavedRequests ==
    {[kind |-> "resource",
      req |-> [ResourceRequest(Dummy, Params, NoBlob, <<>>, NoBlob, NoBlob,
                               "present", FALSE) EXCEPT !.name = n]] :
        n \in {"P", "R"}}
    \cup {[kind |-> "location",
           req |-> LocationRequest("Q", "n1", "INFINITY", Present)],
          [kind |-> "property",
           req |-> OptionRequest(Blob(<<<<"k", "2">>>>), "present")],
          [kind |-> "resource_default",
           req |-> OptionRequest(Blob(<<<<"k", "1">>>>), "present")]}

\* How many runs have reported.
Done == Cardinality({r \in Runners : running[r].phase = "done"})

\* get_cib of run r: the document as it is now, or a failure report.
Fetch(r) ==
    /\ running[r].phase = "idle"
    /\ \E j \in InterleavedRequests, check \in BOOLEAN, ok \in BOOLEAN :
          /\ running' = [running EXCEPT ![r] =
                            [phase |-> IF ok THEN "fetched" ELSE "done",
                             kind |-> j.kind, req |-> j.req, check |-> check,
                             cib |-> doc, changed |-> FALSE, failed |-> ~ok,
                             nth |-> IF ok THEN 0 ELSE Done + 1]]
          /\ last' = IF ok THEN last
                     ELSE Report(j.kind, j.req, check, TRUE, CommandFailed,
                                 FALSE, 1, 0, 0, <<1>>)
          /\ UNCHANGED doc

\* The rest of main() of run r: the edit of what it fetched, the replace
\* when it changed something outside check mode, the report.
Finish(r) ==
    /\ running[r].phase = "fetched"
    /\ \E res \in {ModuleMain(running[r].kind, running[r].cib, running[r].req)},
          commitOk \in BOOLEAN :
          LET run     == running[r]
              attempt == ~res.failed /\ res.changed /\ ~run.check
              failed  == res.failed \/ (attempt /\ ~commitOk)
              changed == res.changed /\ ~(res.late /\ attempt /\ ~commitOk)
          IN  /\ doc' = IF attempt /\ commitOk
                        THEN Replaced(doc, run.kind, run.cib, res.scope)
                        ELSE doc
              /\ last' = Report(run.kind, run.req, run.check, failed,
                                IF res.failed THEN res.msg
                                ELSE IF failed THEN CommandFailed ELSE "",
                                changed, 1, IF attempt THEN 1 ELSE 0, res.found,
                                IF ~attempt THEN <<0>>
                                ELSE IF commitOk THEN <<0, 0>> ELSE <<0, 1>>)
              /\ running' = [running EXCEPT ![r] =
                                [run EXCEPT !.phase = "done",
                                            !.changed = changed,
                                            !.failed = failed,
                                            !.nth = Done + 1]]

InitInterleaved ==
    /\ doc = [ClusterDoc(<<Primitive("Q")>>, <<>>) EXCEPT
                 !.crm_config = Element("crm_config", NoAttrib,
                                        <<PropertySet(<<<<"k", "1">>>>)>>)]
    /\ last = NoRun
    /\ running = NoneRunning

NextInterleaved == \E r \in Runners : Fetch(r) \/ Finish(r)

SpecInterleaved == InitInterleaved /\ [][NextInterleaved]_vars

----------------------------------------------------------------------------
(* Properties of interleaved runs, checked under SpecInterleaved.          *)

\* Run r has committed a change: it reported changed = true, outside check
\* mode, and did not fail.
Committed(r) ==
    /\ running[r].phase = "done"
    /\ ~running[r].failed
    /\ running[r].changed
    /\ ~running[r].check

\* Run r asked pacemaker_resource for a resource that the scope it fetched
\* did not hold.
Creates(r) ==
    /\ running[r].kind = "resource"
    /\ running[r].req.state = "present"
    /\ ~HasElementWithId(running[r].cib.resources, running[r].req.name)

\* C24: when two pacemaker_resource runs that create two different
\* resources have both fetched the scope before either committed, and both
\* commits are made (that of q, then that of r), both report changed = true
\* and the persisted scope after the second commit holds r's resource and
\* not q's: neither run fails or notices.
C24_LostUpdate ==
    \A q \in Runners, r \in Runners :
        ( /\ running[q].phase = "done" /\ ~running[q].check
          /\ running[r].phase = "done" /\ ~running[r].check
          /\ Creates(q)
          /\ Creates(r)
          /\ running[q].req.name # running[r].req.name
          /\ running[q].cib = running[r].cib
          /\ running[q].nth < running[r].nth
          /\ running[q].nth > 0
          /\ last.exits = <<0, 0>>
          /\ ~running[q].failed )
        => /\ Committed(q)
           /\ Committed(r)
           /\ HasElementWithId(doc.resources, running[r].req.name)
           /\ ~HasElementWithId(doc.resources, running[q].req.name)

\* Both runs have reported a change, and the resource P of the first to
\* commit is gone.
C24_Witness ==
    /\ Committed("first")
    /\ Committed("second")
    /\ Creates("first")
    /\ Creates("second")
    /\ running["first"].req.name = "P"
    /\ running["second"].req.name = "R"
    /\ running["first"].cib = running["second"].cib
    /\ running["first"].nth < running["second"].nth
    /\ HasElementWithId(doc.resources, "R")
    /\ ~HasElementWithId(doc.resources, "P")

\* C29: the commit of a run leaves every scope but the one of its own kind
\* as it was just before the commit, so what another run has written to
\* another scope since this run's fetch is still there.
C29_CommitFrame ==
    \A r \in Runners :
        ( /\ Committed(r)
          /\ running[r].nth = Done )
        => \A f \in DOMAIN doc \ {OwnScope(running[r].kind)} :
              doc[f] = last.before[f]


----------------------------------------------------------------------------
(* The constraint modules against a scope that holds two constraints for   *)
(* each pair of participants: the module's own and one another tool made.  *)

DuplicateConstraints ==
    <<Element("rsc_location",
              [id |-> "location-A-n1-100", rsc |-> "A", node |-> "n1",
               score |-> "100"], <<>>),
      Element("rsc_location",
              [id |-> "location-A-n1-50", rsc |-> "A", node |-> "n1",
               score |-> "50"], <<>>),
      Element("rsc_order",
              [id |-> "order-A-B-mandatory", first |-> "A", then |-> "B"]
              @@ ("first-action" :> "start") @@ ("then-action" :> "start"),
              <<>>),
      Element("rsc_order",
              [id |-> "order-A-B-Optional", first |-> "A", then |-> "B",
               kind |-> "Optional"]
              @@ ("first-action" :> "start") @@ ("then-action" :> "start"),
              <<>>),
      Element("rsc_colocation",
              [id |-> "colocation-A-B-100", rsc |-> "A", score |-> "100"]
              @@ ("with-rsc" :> "B"), <<>>),
      Element("rsc_colocation",
              [id |-> "colocation-A-B-50", rsc |-> "A", score |-> "50"]
              @@ ("with-rsc" :> "B"), <<>>)>>

InitReplace ==
    /\ doc = ClusterDoc(<<Primitive("A"), Primitive("B")>>, DuplicateConstraints)
    /\ last = NoRun
    /\ running = NoneRunning

NextReplace == RunColocation \/ RunLocation \/ RunOrder

SpecReplace == InitReplace /\ [][NextReplace]_vars

----------------------------------------------------------------------------
(* Properties of the constraint modules, checked under SpecReplace.        *)

\* The node main() of `kind` builds for the request p on d.
DesiredConstraint(kind, d, p) ==
    IF kind = "colocation" THEN append_colocation_node(d.resources, d.constraints, p)
    ELSE IF kind = "location"
    THEN append_location_node(d.resources, d.nodes, d.constraints, p)
    ELSE append_rsc_order_node(d.constraints, p)

\* C25 (colocation, location, order): when a present request (force off,
\* check mode off) that ends in exit_json found two or more constraints for
\* its key and one of them at least differs from the node it builds, the
\* run reports changed = true and the committed scope is the one before
\* with every found node taken out and the built node appended: exactly one
\* node for the key, the built one.
C25_ReplaceAll ==
    \A kind \in {"colocation", "location", "order"} :
      LET was == ConstraintNodes(kind, last.before, last.req)
          new == DesiredConstraint(kind, last.before, last.req)
      IN  ( /\ last.kind = kind
            /\ PlainPresent
            /\ last.fetches = 1
            /\ Cardinality(was) >= 2
            /\ new.ok
            /\ \E j \in was :
                  has_difference(kind, last.before.constraints.children[j],
                                 new.node) )
          => /\ last.changed
             /\ last.commits = 1
             /\ Cardinality(ConstraintNodes(kind, doc, last.req)) = 1
             /\ doc.constraints.children
                  = Append(RemoveIdx(last.before.constraints.children, was),
                           new.node)


----------------------------------------------------------------------------
(* has_difference on its own: pairs of nodes of the kinds the modules hold *)
(* and build, and the comparison each module's copy makes of them.         *)

\* The longest list of children of a compared node.
MaxChildren == 2

\* The lists of at most n elements of S.
ListsUpTo(S, n) == UNION {[1..k -> S] : k \in 0..n}

\* No two elements of the list carry the same id: what the CIB holds.
UniqueIds(children) ==
    \A i \in DOMAIN children, j \in DOMAIN children :
        (i # j /\ HasId(children[i]) /\ HasId(children[j]))
            => children[i].attrib.id # children[j].attrib.id

\* resource_set nodes: resource_ref children A and B.
ResourceSets ==
    {Element("resource_set", [id |-> "S-set"], refs) :
        refs \in ListsUpTo({Element("resource_ref", [id |-> n], <<>>) :
                               n \in {"A", "B"}}, MaxChildren)}

\* group nodes: the primitives X and Y, X also with a meta attribute, and
\* the group's own meta_attributes.
Groups ==
    {Element("group", [id |-> "G"], members) :
        members \in ListsUpTo({Primitive("X"), Primitive("Y"),
                               SubElement(Primitive("X"),
                                          append_meta_attribute_node(
                                              "X", <<"k">>, [k |-> "1"])),
                               append_meta_attribute_node(
                                   "G", <<"k">>, [k |-> "1"])},
                              MaxChildren)}

\* primitive nodes: operations children (no id) with and without an op, and
\* meta_attributes children (one id) of two values.
Resources ==
    {Element("primitive", [id |-> "P"], children) :
        children \in ListsUpTo({append_operations_node("P", <<>>),
                                append_operations_node("P", <<Monitor>>),
                                append_meta_attribute_node(
                                    "P", <<"k">>, [k |-> "1"]),
                                append_meta_attribute_node(
                                    "P", <<"k">>, [k |-> "2"])},
                               MaxChildren)}

\* The pairs (current, new): current comes from the CIB.
Compared ==
    {[current |-> c, new |-> n] :
        c \in {x \in ResourceSets \cup Groups \cup Resources :
                  UniqueIds(x.children)},
        n \in ResourceSets \cup Groups \cup Resources}

\* The modules whose copy of has_difference is applied.
Comparators == {"resource", "resource_group", "order_set"}

\* has_difference(current, new) of module `mod`.
Compare(mod) ==
    /\ last' = [kind |-> "has_difference", mod |-> mod,
                differs |-> has_difference(mod, doc.current, doc.new)]
    /\ UNCHANGED <<doc, running>>

InitComparator ==
    /\ doc \in Compared
    /\ last = NoRun
    /\ running = NoneRunning

NextComparator == \E mod \in Comparators : Compare(mod)

SpecComparator == InitComparator /\ [][NextComparator]_vars

----------------------------------------------------------------------------
(* Properties of has_difference, checked under SpecComparator.             *)

\* The ids of the children of `node` with the tag, in document order.
ChildIds(node, tag) ==
    LET kept == SelectSeq(node.children, LAMBDA c : c.tag = tag)
    IN  [i \in DOMAIN kept |-> Get(kept[i], "id")]

\* C26: for two resource_set nodes under pacemaker_order_set, and two group
\* nodes under pacemaker_resource_group, with equal attributes,
\* has_difference is false exactly when the resource_ref (primitive)
\* children are as many on both sides and has_difference is false for the
\* two children at every position; lists of children whose ids differ
\* anywhere (a permutation, an added or a dropped child) give a difference.
C26_OrderedChildren ==
    \A pair \in {<<"order_set", "resource_set", "resource_ref">>,
                 <<"resource_group", "group", "primitive">>} :
        ( /\ last.kind = "has_difference"
          /\ last.mod = pair[1]
          /\ doc.current.tag = pair[2]
          /\ doc.new.tag = pair[2]
          /\ doc.current.attrib = doc.new.attrib )
        => LET c == SelectSeq(doc.current.children, LAMBDA x : x.tag = pair[3])
               n == SelectSeq(doc.new.children, LAMBDA x : x.tag = pair[3])
           IN  /\ ~last.differs
                    <=> /\ Len(c) = Len(n)
                        /\ \A i \in DOMAIN c :
                              ~has_difference(last.mod, c[i], n[i])
               /\ ChildIds(doc.current, pair[3]) # ChildIds(doc.new, pair[3])
                    => last.differs

\* The resource_set of A then B against the one of B then A: a difference.
C26_Witness ==
    /\ last.kind = "has_difference"
    /\ last.mod = "order_set"
    /\ doc.current.tag = "resource_set"
    /\ doc.new.tag = "resource_set"
    /\ ChildIds(doc.current, "resource_ref") = <<"A", "B">>
    /\ ChildIds(doc.new, "resource_ref") = <<"B", "A">>
    /\ last.differs

\* C27: under pacemaker_resource, for two nodes of one tag with equal
\* attributes, has_difference is false exactly when every child of the new
\* node that carries an id has a current child of that id for which
\* has_difference is false, and every child of the new node without an id
\* has a current child of its tag for which has_difference is false.
C27_ExistentialMatch ==
    ( /\ last.kind = "has_difference"
      /\ last.mod = "resource"
      /\ doc.current.tag = doc.new.tag
      /\ doc.current.attrib = doc.new.attrib )
    => ( ~last.differs
           <=> \A k \in DOMAIN doc.new.children :
                  \E j \in DOMAIN doc.current.children :
                     /\ IF HasId(doc.new.children[k])
                        THEN Get(doc.current.children[j], "id")
                                = Get(doc.new.children[k], "id")
                        ELSE doc.current.children[j].tag
                                = doc.new.children[k].tag
                     /\ ~has_difference("resource", doc.current.children[j],
                                        doc.new.children[k]) )

\* The new primitive has two operations children, the current one a single
\* operations child that serves for both: no difference.
C27_Witness ==
    /\ last.kind = "has_difference"
    /\ last.mod = "resource"
    /\ doc.current.tag = "primitive"
    /\ doc.new.tag = "primitive"
    /\ Len(doc.current.children) = 1
    /\ Len(doc.new.children) = 2
    /\ \A k \in DOMAIN doc.new.children : ~HasId(doc.new.children[k])
    /\ ~last.differs


----------------------------------------------------------------------------
(* Reconciliation of an existing group, under SpecGroup.                   *)

\* The ids of the primitives of the scope.
PrimitiveIds(resources) ==
    {Get(Primitives(resources)[k], "id") : k \in DOMAIN Primitives(resources)}

\* C28: a present request for the group G that exists (force off, check
\* mode off, ending in exit_json) commits a scope that still holds every
\* primitive id the scope held before the request; with G = [X, Y] and the
\* request listing [X] alone, Y is still in the scope.
C28_GroupKeepsPrimitives ==
    ( /\ last.kind = "resource_group"
      /\ PlainPresent
      /\ FindTagId(last.before.resources, "group", "G") # <<>> )
    => PrimitiveIds(last.before.resources) \subseteq PrimitiveIds(doc.resources)


----------------------------------------------------------------------------
(* The direction of the comparison, under SpecResource.                    *)

\* The request p with more asked for: a meta attribute, a parameter, an op,
\* where p gives none.
Enlarged(p) ==
    {[p EXCEPT !.meta = m, !.params = ps, !.op = o] :
        m \in {p.meta, Meta}, ps \in {p.params, Params},
        o \in {p.op, <<Monitor>>}} \ {p}

\* The bare primitive the request p names is, in the scope, the one the
\* module builds for a request of Enlarged(p) that p does not build.
CarriesMore(resources, p) ==
    LET found == FindTagId(resources, "primitive", p.name)
    IN  /\ Len(found) = 1
        /\ Len(found[1]) = 1
        /\ \E q \in Enlarged(p) :
              /\ RequestedNode(q, FALSE).ok
              /\ RequestedNode(q, FALSE).node # RequestedNode(p, FALSE).node
              /\ NodeAt(resources, found[1]) = RequestedNode(q, FALSE).node

\* C30: a present request for a bare primitive (force off, check mode off,
\* cibadmin working) that finds the primitive as the module builds it for
\* the same request with a meta attribute, a parameter or an op more: for
\* the found primitive and the built one has_difference is false, and the run
\* reports changed = false, commits nothing and leaves the scope, with what
\* the primitive carries, as it was.
C30_OneDirectional ==
    ( /\ last.kind = "resource"
      /\ last.req.state = "present"
      /\ ~last.req.force
      /\ ~last.check
      /\ last.fetches = 1
      /\ CibadminWorked
      /\ ~last.req.clone.given
      /\ ~last.req.master.given
      /\ CarriesMore(last.before.resources, last.req) )
    => /\ ~has_difference("resource",
                           NodeAt(last.before.resources,
                                  FindTagId(last.before.resources, "primitive",
                                            last.req.name)[1]),
                           RequestedNode(last.req, FALSE).node)
       /\ ~last.failed
       /\ ~last.changed
       /\ last.commits = 0
       /\ doc = last.before
       /\ CarriesMore(doc.resources, last.req)

\* P carries the meta attribute is-managed, the request gives no meta, and
\* the run has left P alone.
C30_Witness ==
    /\ last.kind = "resource"
    /\ last.req.state = "present"
    /\ ~last.req.force
    /\ ~last.check
    /\ last.fetches = 1
    /\ ~last.req.meta.given
    /\ CarriesMore(last.before.resources, last.req)
    /\ <<"is-managed", "true">>
          \in MetaPairs(doc.resources,
                        FindTagId(doc.resources, "primitive", last.req.name)[1])
    /\ ~last.changed
    /\ ~last.failed

====
